---- MODULE Spec2Model ----
(***************************************************************************)
(* Model of the augmento task-distribution engine:                         *)
(*   SafeQueue<T>        include/multithread.hpp                           *)
(*   producerPool,                                                         *)
(*   consumerThread      src/multithread.cpp                               *)
(*   ThreadController    src/thread_controller.cpp                         *)
(*   Image (id, save)    src/image.cpp                                     *)
(*                                                                         *)
(* A critical section taken under SafeQueue::mtx_ is one atomic step.      *)
(* A thread blocked in cv_.wait is a member of cv_[q]; notify_one removes  *)
(* one member, notify_all removes all, and a spurious wake-up may remove   *)
(* any member at any time.  A thread that has left cv_[q] re-evaluates the *)
(* wait predicate under the mutex.                                         *)
(***************************************************************************)
EXTENDS Integers, Sequences, FiniteSets, Bags, TLC

\* ---------------------------------------------------------------- bounds
MaxThreads == 2     \* largest numThreads handed to the constructor
MaxCap     == 1     \* largest queueCapacity handed to the constructor
MaxPaths   == 4     \* longest image_paths list handed to run
MaxIter    == 3     \* largest iterations handed to run
MaxTasks   == 12    \* most tasks (paths * iterations) of a run with one
                    \* producer
MaxConcTasks == 3   \* most tasks of a run with several producers
MaxClients == 3     \* threads calling a SafeQueue directly
MaxItems   == 3     \* items those threads push
MaxFaults  == 1     \* environment faults (unreadable file, throwing
                    \* operation, failing write) injected in one run
MaxOps     == 2     \* longest operations_ list of a Pipeline
MaxSeed    == 1     \* largest base seed and largest explicit seed
MaxNames   == 1     \* distinct image names
MaxPixels  == 1     \* distinct non-empty pixel contents
MaxRerunTasks == 2  \* most tasks of a run that is executed a second time
UIntMod    == 16    \* number of values of the model's unsigned int: seeds
                    \* and generator states are reduced modulo UIntMod
MaxParams  == 7     \* longest parameter list handed to create
MaxVaried  == 4     \* longest parameter list whose values are all varied
Unit       == 10    \* the model's doubles are multiples of 1/Unit

\* ------------------------------------------------------- program constants
batchSize == 12     \* consumerThread: size_t batchSize = 12
default_seed == 5489  \* state of a default-constructed std::mt19937

\* ------------------------------------------------------------------ state
VARIABLES
  numThreads_,      \* ThreadController::numThreads_
  queueCapacity,    \* constructor argument handed to imageQueue_
  queue_,           \* SafeQueue::queue_ of each queue      (q -> Seq)
  done_,            \* SafeQueue::done_  of each queue      (q -> BOOLEAN)
  cv_,              \* threads blocked in cv_.wait of each queue (q -> SUBSET)
  ctl,              \* position of the thread that constructs and runs the
                    \* controller
  image_paths,      \* run argument: number of paths in the list
  iterations,       \* run argument
  totalTasks_,      \* ThreadController::totalTasks_
  pushed,           \* number of pathQueue_.push calls run has completed
  producers_,       \* position of each producer thread
  path,             \* producerPool local `path` of each producer
  img,              \* producerPool local `img` of each producer
  consumer_,        \* position of the consumer thread
  image_batch,      \* consumerThread local `image_batch`
  bidx,             \* index of the range-for over image_batch
  localSaveCount,   \* consumerThread local `localSaveCount`
  global_id_,       \* Image::global_id_
  disk,             \* bag of images written by the sink
  aborted,          \* std::terminate was called (uncaught exception in a
                    \* thread)
  faults,           \* number of environment faults injected so far
  taken,            \* history: bag of the tasks popped by producers
  produced,         \* history: images pushed onto imageQueue_ by producers
  writeFailed,      \* history: some save did not write its image
  dropped,          \* history: tasks whose try block in producerPool threw
  save_specs,       \* the save_specs argument the caller passes to run
  plainSaved,       \* history: images written by Image::save
  call,             \* position of each thread that calls imageQueue_ directly
  arg,              \* the item of each such thread's push call
  ret,              \* what the pop call each such thread made last returned
  nextItem,         \* the next item such a thread will push
  pushLog,          \* history: the items enqueued by push and their callers,
                    \* in the order the pushes took effect
  popLog,           \* history: the items pop handed out, in that order
  closeLen,         \* history: items buffered at the last setDone
  okSince,          \* history: pops that returned true since the last setDone
  pushSince,        \* history: a push has enqueued since the last setDone
  reclosed,         \* history: setDone was called on a closed queue
  operations_,      \* Pipeline::operations_
  base_seed_,       \* Pipeline::base_seed_
  seed,             \* the explicit seed callers hand to apply(img, seed)
  images,           \* the Image objects handed to Pipeline::apply
  frame,            \* the apply call each thread is in: its image, its
                    \* overload and the index of its range-for
  rand,             \* the thread_local generator `rand` of each thread, one
                    \* per overload of apply
  inv,              \* history of the apply call made on each image: its
                    \* seed, the values it drew, its decisions
  firstRun,         \* history: configuration and image ids of the previous
                    \* execution of the program
  made,             \* the OperationFactory::create call made and its result
  applied           \* outcome of op->apply of the entry that call returned

vars == << numThreads_, queueCapacity, queue_, done_, cv_, ctl, image_paths,
           iterations, totalTasks_, pushed, producers_, path, img, consumer_,
           image_batch, bidx, localSaveCount, global_id_, disk, aborted,
           faults, taken, produced, writeFailed, dropped, save_specs,
           plainSaved, call, arg, ret,
           nextItem, pushLog, popLog, closeLen, okSince, pushSince, reclosed,
           operations_,
           base_seed_, seed, images, frame, rand, inv, firstRun, made,
           applied >>

qvars   == << queue_, done_, cv_ >>
argvars == << numThreads_, queueCapacity, image_paths, iterations,
              totalTasks_, save_specs >>
prodvars == << producers_, path, img >>
consvars == << consumer_, image_batch, bidx, localSaveCount >>
histvars == << taken, produced, writeFailed, dropped, plainSaved >>
callvars == << call, arg, ret, nextItem, pushLog, popLog, closeLen, okSince,
              pushSince, reclosed >>
pipevars == << operations_, base_seed_, seed, images, frame, rand, inv,
              made, applied >>
ctlvars == << argvars, ctl, pushed, prodvars, consvars, global_id_, disk,
              aborted, faults, histvars >>

\* ------------------------------------------------------------- vocabulary
PathQ  == "pathQueue_"
ImageQ == "imageQueue_"
QNames == {PathQ, ImageQ}

Producers == 1..MaxThreads
Consumer  == 0
Clients   == 1..MaxClients

NoRet == [ok |-> FALSE, item |-> 0]

NoPath  == [path |-> 0, i |-> 0]
NoImage == [id |-> -1, path |-> 0, i |-> 0, empty |-> TRUE]

\* (variant: the outer loop never advances to the next path)
TaskAt_firstPathOnly(t, iters) == [path |-> 1, i |-> t - 1]

\* The Image objects handed to Pipeline::apply; an object that has not been
\* constructed; data 0 is the empty matrix, 1..MaxPixels are pixel contents
Images   == {"imgA", "imgB"}
NoObject == [id |-> -1, name |-> 0, data |-> 0, history |-> << >>]

\* The two overloads of Pipeline::apply: apply(Image&) derives the seed from
\* the image, apply(Image&, unsigned int) takes it from the caller
Overloads == {"derived", "explicit"}

\* A thread that is in no apply call; an image no apply call was made on
NoFrame == [img |-> "none", overload |-> "none", k |-> 0]
NoCall  == [overload |-> "none", seed |-> 0, state |-> "none",
            drawn |-> << >>, decided |-> << >>]

\* No earlier execution of the program
NoRun == [paths |-> 0, iters |-> 0, ids |-> {}]

\* The task pushed by the t-th pathQueue_.push of run (t = 1..totalTasks_):
\* the outer loop walks image_paths, the inner loop runs `iterations` times.
\* The queue item is the path; i tags the copy so that copies of one path
\* can be told apart.
TaskAt(t, iters) == [path |-> ((t - 1) \div iters) + 1, i |-> (t - 1) % iters]

\* ------------------------------------------------------------- SafeQueue
\* (variant: push notifies nobody)
NotifyOne_nobody(waiters) == {{}}

\* std::condition_variable::notify_one: wakes one waiter if there is one.
NotifyOne(waiters) ==
  IF waiters = {} THEN {{}} ELSE {{w} : w \in waiters}

\* (variant: the item is put in front of the buffered ones)
push_atFront(q, item) ==
  \E woken \in NotifyOne(cv_[q]) :
    /\ queue_' = [queue_ EXCEPT ![q] = << item >> \o @]
    /\ cv_' = [cv_ EXCEPT ![q] = @ \ woken]
    /\ UNCHANGED done_

\* SafeQueue::push
push(q, item) ==
  \E woken \in NotifyOne(cv_[q]) :
    /\ queue_' = [queue_ EXCEPT ![q] = Append(@, item)]
    /\ cv_' = [cv_ EXCEPT ![q] = @ \ woken]
    /\ UNCHANGED done_

\* The wait predicate of SafeQueue::pop
popReady(q) == queue_[q] # << >> \/ done_[q]

\* (variant: reports "no item" as soon as the queue is closed)
popOk_closedMeansEmpty(q) == queue_[q] # << >> /\ ~done_[q]

\* The value SafeQueue::pop returns once the predicate holds
popOk(q) == queue_[q] # << >>

\* (variant: hands out the front item without the queue_.pop())
pop_keepsFront(q, t) ==
  /\ t \notin cv_[q]
  /\ IF popReady(q)
       THEN /\ queue_' = queue_
            /\ cv_' = cv_
       ELSE /\ queue_' = queue_
            /\ cv_' = [cv_ EXCEPT ![q] = @ \cup {t}]
  /\ UNCHANGED done_

\* SafeQueue::pop, entered or resumed by thread t: takes the front item,
\* reports empty-and-done, or blocks in cv_.wait
pop(q, t) ==
  /\ t \notin cv_[q]
  /\ IF popReady(q)
       THEN /\ queue_' = [queue_ EXCEPT ![q] =
                            IF popOk(q) THEN Tail(@) ELSE @]
            /\ cv_' = cv_
       ELSE /\ queue_' = queue_
            /\ cv_' = [cv_ EXCEPT ![q] = @ \cup {t}]
  /\ UNCHANGED done_

\* (variant: closing also discards what is buffered)
setDone_dropsBuffered(q) ==
  /\ done_' = [done_ EXCEPT ![q] = TRUE]
  /\ cv_' = [cv_ EXCEPT ![q] = {}]
  /\ queue_' = [queue_ EXCEPT ![q] = << >>]

\* (variant: setDone flips the flag, so a second call reopens the queue)
setDone_reopens(q) ==
  /\ done_' = [done_ EXCEPT ![q] = ~@]
  /\ cv_' = [cv_ EXCEPT ![q] = {}]
  /\ UNCHANGED queue_

\* SafeQueue::setDone
setDone(q) ==
  /\ done_' = [done_ EXCEPT ![q] = TRUE]
  /\ cv_' = [cv_ EXCEPT ![q] = {}]
  /\ UNCHANGED queue_

\* A spurious wake-up of a thread blocked in cv_.wait
SpuriousWake(q, t) ==
  /\ ~aborted
  /\ t \in cv_[q]
  /\ cv_' = [cv_ EXCEPT ![q] = @ \ {t}]
  /\ UNCHANGED << callvars, pipevars, firstRun,
                  queue_, done_, argvars, ctl, pushed, prodvars, consvars,
                  global_id_, disk, aborted, faults, histvars >>

\* --------------------------------------------------------------- Pipeline
\* std::mt19937 is reduced to a generator with UIntMod states whose output
\* is its new state; one sample of a distribution advances it once.
\* rand.seed(s)
seeded(s) == s % UIntMod

\* One step of the generator: the state after it, which is the value drawn
engineNext(g) == (5 * g + 3) % UIntMod

\* The n values drawn one after the other from a generator in state g
RECURSIVE Stream(_, _)
Stream(g, n) ==
  IF n = 0 THEN << >>
           ELSE << engineNext(g) >> \o Stream(engineNext(g), n - 1)

\* base_seed_ + static_cast<unsigned int>(img.getId()), in unsigned int
derivedSeed(base, id) == (base + id) % UIntMod

\* (variant: every thread uses one generator object)
gen_shared(t) == 1

\* `thread_local std::mt19937 rand`: the generator object thread t uses
gen(t) == t

\* (variant: the range-for walks operations_ from the back)
entryOrder_reversed(n, k) == n + 1 - k

\* for (const auto& op : operations_): the element the k-th iteration visits
\* in a list of n
entryOrder(n, k) == k

\* (variant: the comparison also accepts a draw equal to the probability)
runs_orEqual(u, prob) == u <= prob

\* if (dist(rand) < op.prob): dist is uniform on [0,1); a draw and a
\* probability are numerators over UIntMod
runs(u, prob) == u < prob

\* The operations a pipeline is built from (operation.cpp) and the
\* probabilities 0, 1/2 and 1
OpKinds == {"ReflectImage", "InjectNoise", "RandomErase"}
Probs   == {0, UIntMod \div 2, UIntMod}
Entries == [op : OpKinds, prob : Probs]
Pipelines == UNION {[1..n -> Entries] : n \in 0..MaxOps}

\* How many values Operation::apply samples from the generator it is given:
\* ReflectImage the axis, InjectNoise the mean and the deviation,
\* RandomErase none
OpDraws(op) ==
  CASE op = "ReflectImage" -> 1
    [] op = "InjectNoise"  -> 2
    [] op = "RandomErase"  -> 0

\* ReflectImage::apply throws when the flip reports -1, which it does for an
\* empty matrix; the other two ignore what the manipulation returns
OpThrows(op, data) == op = "ReflectImage" /\ data = 0

\* What the operation samples from a source of its own: randomErase draws
\* the rectangle from a std::mt19937 seeded by std::random_device (unless
\* the matrix is empty), the others draw nothing of their own
OpOwn(op, data) ==
  IF op = "RandomErase" /\ data # 0 THEN 0..1 ELSE {0}

\* (variant: the new entry replaces the log)
logOperation_replaces(history_, op) == << op >>

\* Image::logOperation: history_.emplace_back(op)
logOperation(history_, op) == Append(history_, op)

\* The entry Operation::apply logs: ReflectImage the axis (axisDist(0, 1)),
\* InjectNoise the two sampled values, RandomErase only its configured
\* ranges
OpLog(op, vals) ==
  CASE op = "ReflectImage" -> [op |-> op, params |-> << vals[1] % 2 >>]
    [] op = "InjectNoise"  -> [op |-> op, params |-> vals]
    [] op = "RandomErase"  -> [op |-> op, params |-> << >>]

\* ------------------------------------------------------ ThreadController
\* ThreadController::ThreadController, in a process that has built no Image
CtlInit ==
  /\ numThreads_ \in 0..MaxThreads
  /\ queueCapacity \in 1..MaxCap
  /\ queue_ = [q \in QNames |-> << >>]
  /\ done_ = [q \in QNames |-> FALSE]
  /\ cv_ = [q \in QNames |-> {}]
  /\ ctl = IF numThreads_ = 0 THEN "ctor_threw" ELSE "idle"
  /\ image_paths = 0
  /\ iterations = 0
  /\ totalTasks_ = 0
  /\ pushed = 0
  /\ producers_ = [p \in Producers |-> "none"]
  /\ path = [p \in Producers |-> NoPath]
  /\ img = [p \in Producers |-> NoImage]
  /\ consumer_ = "none"
  /\ image_batch = << >>
  /\ bidx = 0
  /\ localSaveCount = 0
  /\ disk = EmptyBag
  /\ aborted = FALSE
  /\ faults = 0
  /\ taken = EmptyBag
  /\ produced = {}
  /\ writeFailed = FALSE
  /\ plainSaved = {}
  /\ dropped = {}
  /\ call = [c \in Clients |-> "idle"]
  /\ arg = [c \in Clients |-> 0]
  /\ ret = [c \in Clients |-> NoRet]
  /\ nextItem = 1
  /\ pushLog = << >>
  /\ popLog = << >>
  /\ closeLen = -1
  /\ okSince = 0
  /\ pushSince = FALSE
  /\ reclosed = FALSE

\* -------------------------------------------------------- OperationFactory
\* A name is a std::string: the sequence of its character codes (ASCII).  A
\* parameter is a double, kept in units of 1/Unit; an int or size_t is kept
\* as an integer.

\* (variant: the name is compared as given, not lowered)
tolower_identity(c) == c

\* std::tolower in the "C" locale on one unsigned char
tolower(c) == IF c \in 65..90 THEN c + 32 ELSE c

\* std::transform(key.begin(), key.end(), key.begin(), tolower)
lowered(name) == [i \in DOMAIN name |-> tolower(name[i])]

\* The string literals the two create functions compare key with
\* "rotate"
key_rotate == << 114, 111, 116, 97, 116, 101 >>
\* "reflect"
key_reflect == << 114, 101, 102, 108, 101, 99, 116 >>
\* "resize"
key_resize == << 114, 101, 115, 105, 122, 101 >>
\* "crop"
key_crop == << 99, 114, 111, 112 >>
\* "affine transform"
key_affine_transform ==
  << 97, 102, 102, 105, 110, 101, 32, 116,
     114, 97, 110, 115, 102, 111, 114, 109 >>
\* "color jitter"
key_color_jitter ==
  << 99, 111, 108, 111, 114, 32,
     106, 105, 116, 116, 101, 114 >>
\* "histogram equalization"
key_histogram_equalization ==
  << 104, 105, 115, 116, 111, 103, 114, 97, 109, 32, 101,
     113, 117, 97, 108, 105, 122, 97, 116, 105, 111, 110 >>
\* "white balance"
key_white_balance ==
  << 119, 104, 105, 116, 101, 32,
     98, 97, 108, 97, 110, 99, 101 >>
\* "to grayscale"
key_to_grayscale ==
  << 116, 111, 32, 103, 114, 97,
     121, 115, 99, 97, 108, 101 >>
\* "adjust brightness"
key_adjust_brightness ==
  << 97, 100, 106, 117, 115, 116, 32, 98,
     114, 105, 103, 104, 116, 110, 101, 115, 115 >>
\* "adjust contrast"
key_adjust_contrast ==
  << 97, 100, 106, 117, 115, 116, 32,
     99, 111, 110, 116, 114, 97, 115, 116 >>
\* "adjust saturation"
key_adjust_saturation ==
  << 97, 100, 106, 117, 115, 116, 32, 115,
     97, 116, 117, 114, 97, 116, 105, 111, 110 >>
\* "adjust hue"
key_adjust_hue == << 97, 100, 106, 117, 115, 116, 32, 104, 117, 101 >>
\* "inject noise"
key_inject_noise ==
  << 105, 110, 106, 101, 99, 116,
     32, 110, 111, 105, 115, 101 >>
\* "blur image"
key_blur_image == << 98, 108, 117, 114, 32, 105, 109, 97, 103, 101 >>
\* "sharpen image"
key_sharpen_image ==
  << 115, 104, 97, 114, 112, 101,
     110, 32, 105, 109, 97, 103, 101 >>
\* "random erase"
key_random_erase ==
  << 114, 97, 110, 100, 111, 109,
     32, 101, 114, 97, 115, 101 >>

Keys ==
  { key_rotate, key_reflect, key_resize, key_crop, key_affine_transform,
    key_color_jitter, key_histogram_equalization, key_white_balance,
    key_to_grayscale, key_adjust_brightness, key_adjust_contrast,
    key_adjust_saturation, key_adjust_hue, key_inject_noise, key_blur_image,
    key_sharpen_image, key_random_erase }

\* Implicit conversion of a double to int: truncation toward zero
toInt(v) == IF v >= 0 THEN v \div Unit ELSE -((-v) \div Unit)

\* static_cast<size_t>(double): truncation; undefined for a negative value,
\* where the result is any size_t (a valid rotation type or an invalid one)
toSize(v) == IF v >= 0 THEN {v \div Unit} ELSE 0..3

\* An int or a literal used where a double is expected
toDouble(n) == n * Unit

\* What a create call yields: the OperationEntry it returns (the class of
\* the operation, the fields its constructor set, the probability) or the
\* std::invalid_argument it throws.  `what` tells what the message is about,
\* `op` the operation the message names, `expected` and `received` the
\* parameter counts the message states.
NoCount == -1

NoError ==
  [type |-> "none", what |-> "none", op |-> << >>, expected |-> {},
   received |-> NoCount]

OperationEntry(cls, fields, prob) ==
  [kind |-> "entry", cls |-> cls, fields |-> fields, prob |-> prob,
   err |-> NoError]

invalid_argument(what, op, expected) ==
  [kind |-> "error", cls |-> "none", fields |-> << >>, prob |-> 0,
   err |-> [type |-> "invalid_argument", what |-> what, op |-> op,
            expected |-> expected, received |-> NoCount]]

\* ------------------------------------------- constructors of the operations
\* Each yields the entry holding the new object, or the exception thrown.

RotateImage(min_angle, max_angle, rot_type, prob) ==
  IF min_angle > max_angle
    THEN invalid_argument("value", << >>, {})
    ELSE OperationEntry("RotateImage", << min_angle, max_angle, rot_type >>,
                        prob)

ReflectImage(prob) == OperationEntry("ReflectImage", << >>, prob)

\* fields: min_scale_, max_scale_, min_w_, max_w_, min_h_, max_h_
ResizeImage_scale(min_scale, max_scale, prob) ==
  IF min_scale > max_scale
    THEN invalid_argument("value", << >>, {})
    ELSE OperationEntry("ResizeImage",
                        << min_scale, max_scale, -1, -1, -1, -1 >>, prob)

ResizeImage_abs(min_w, max_w, min_h, max_h, prob) ==
  IF min_w > max_w \/ min_h > max_h
    THEN invalid_argument("value", << >>, {})
    ELSE OperationEntry("ResizeImage",
                        << toDouble(-1), toDouble(-1),
                           min_w, max_w, min_h, max_h >>, prob)

\* fields: x_, y_, w_, h_
CropImage_wh(width, height, prob) ==
  IF width < 0 \/ height < 0
    THEN invalid_argument("value", << >>, {})
    ELSE OperationEntry("CropImage", << -1, -1, width, height >>, prob)

CropImage_xywh(x, y, width, height, prob) ==
  IF width < 0 \/ height < 0 \/ x < 0 \/ y < 0
    THEN invalid_argument("value", << >>, {})
    ELSE OperationEntry("CropImage", << x, y, width, height >>, prob)

\* The matrix is the 2x3 CV_64F matrix the factory (or the constructor
\* itself) builds, so neither check of the constructor fails
AffineTransform(matrix, prob) ==
  IF Len(matrix) # 6
    THEN invalid_argument("value", << >>, {})
    ELSE OperationEntry("AffineTransform", matrix, prob)

ColorJitter(brightness_range, contrast_range, saturation_range, hue_range, prob) ==
  IF brightness_range < 0 \/ contrast_range < 0 \/ saturation_range < 0
       \/ hue_range < 0
    THEN invalid_argument("value", << >>, {})
    ELSE OperationEntry("ColorJitter",
                        << brightness_range, contrast_range,
                           saturation_range, hue_range >>, prob)

HistogramEqualization(prob) ==
  OperationEntry("HistogramEqualization", << >>, prob)

WhiteBalance(prob) == OperationEntry("WhiteBalance", << >>, prob)

ToGrayscale(prob) == OperationEntry("ToGrayscale", << >>, prob)

\* AdjustBrightness, AdjustContrast, AdjustSaturation (double, double) and
\* AdjustHue (int, int): the same constructor body in the four classes
Adjust(cls, min_val, max_val, prob) ==
  IF min_val > max_val
    THEN invalid_argument("value", << >>, {})
    ELSE OperationEntry(cls, << min_val, max_val >>, prob)

\* InjectNoise(mean_min, mean_max, stdev_min, stdev_max): initialisers only
InjectNoise(mean_min, mean_max, stdev_min, stdev_max, prob) ==
  OperationEntry("InjectNoise",
                 << mean_min, mean_max, stdev_min, stdev_max >>, prob)

\* BlurImage(min_k, max_k): initialisers only
BlurImage(min_k, max_k, prob) ==
  OperationEntry("BlurImage", << min_k, max_k >>, prob)

SharpenImage(prob) == OperationEntry("SharpenImage", << >>, prob)

RandomErase(min_h, max_h, min_w, max_w, prob) ==
  IF min_h > max_h \/ min_w > max_w \/ max_w < 0 \/ max_h < 0
    THEN invalid_argument("value", << >>, {})
    ELSE OperationEntry("RandomErase", << min_h, max_h, min_w, max_w >>,
                        prob)

\* No create call made yet
NoResult ==
  [kind |-> "none", cls |-> "none", fields |-> << >>, prob |-> 0,
   err |-> NoError]

NoMade ==
  [variant |-> "none", name |-> << >>, params |-> << >>, prob |-> 0,
   result |-> NoResult]

\* ------------------------------------------------ OperationFactory::create
\* The values std::uniform_*_distribution(a, b) may return: the model keeps
\* the two ends of the range
Between(a, b) == {a, b}

\* AffineTransform(std::mt19937&): six draws from [-2, 2]
RandomMatrices == [1..6 -> Between(toDouble(-2), toDouble(2))]

\* create(name, params, prob): the set of results the call can have
create(name, params, prob) ==
  LET key == lowered(name)
      n == Len(params)
  IN CASE key = key_rotate ->
            IF n # 3
              THEN {invalid_argument("count", key_rotate, {3})}
              ELSE {RotateImage(params[1], params[2], t, prob) :
                      t \in toSize(params[3])}
       [] key = key_reflect ->
            IF n # 0
              THEN {invalid_argument("count", key_reflect, {0})}
              ELSE {ReflectImage(prob)}
       [] key = key_resize ->
            IF n = 2
              THEN {ResizeImage_scale(params[1], params[2], prob)}
            ELSE IF n = 4
              THEN {ResizeImage_abs(toInt(params[1]), toInt(params[2]),
                                    toInt(params[3]), toInt(params[4]),
                                    prob)}
            ELSE {invalid_argument("count", key_resize, {2, 4})}
       [] key = key_crop ->
            IF n = 2
              THEN {CropImage_wh(toInt(params[1]), toInt(params[2]), prob)}
            ELSE IF n = 4
              THEN {CropImage_xywh(toInt(params[1]), toInt(params[2]),
                                   toInt(params[3]), toInt(params[4]),
                                   prob)}
            ELSE {invalid_argument("count", key_crop, {2, 4})}
       [] key = key_affine_transform ->
            IF n = 0
              THEN {AffineTransform(matrix, prob) :
                      matrix \in RandomMatrices}
            ELSE IF n = 6
              THEN {AffineTransform(params, prob)}
            ELSE {invalid_argument("count", key_affine_transform, {0, 6})}
       [] key = key_color_jitter ->
            IF n # 4
              THEN {invalid_argument("count", key_color_jitter, {4})}
              ELSE {ColorJitter(params[1], params[2], params[3],
                                toInt(params[4]), prob)}
       [] key = key_histogram_equalization ->
            IF n # 0
              THEN {invalid_argument("count", key_histogram_equalization,
                                     {0})}
              ELSE {HistogramEqualization(prob)}
       [] key = key_white_balance ->
            IF n # 0
              THEN {invalid_argument("count", key_white_balance, {0})}
              ELSE {WhiteBalance(prob)}
       [] key = key_to_grayscale ->
            IF n # 0
              THEN {invalid_argument("count", key_to_grayscale, {0})}
              ELSE {ToGrayscale(prob)}
       [] key = key_adjust_brightness ->
            IF n # 2
              THEN {invalid_argument("count", key_adjust_brightness, {2})}
              ELSE {Adjust("AdjustBrightness", params[1], params[2], prob)}
       [] key = key_adjust_contrast ->
            IF n # 2
              THEN {invalid_argument("count", key_adjust_contrast, {2})}
              ELSE {Adjust("AdjustContrast", params[1], params[2], prob)}
       [] key = key_adjust_saturation ->
            IF n # 2
              THEN {invalid_argument("count", key_adjust_saturation, {2})}
              ELSE {Adjust("AdjustSaturation", params[1], params[2], prob)}
       [] key = key_adjust_hue ->
            IF n # 2
              THEN {invalid_argument("count", key_adjust_hue, {2})}
              ELSE {Adjust("AdjustHue", toInt(params[1]), toInt(params[2]),
                           prob)}
       [] key = key_inject_noise ->
            IF n = 0
              THEN {InjectNoise(toDouble(-10), toDouble(10), toDouble(0),
                                toDouble(20), prob)}
            ELSE IF n = 4
              THEN {InjectNoise(params[1], params[2], params[3], params[4],
                                prob)}
            ELSE {invalid_argument("count", key_inject_noise, {0, 4})}
       [] key = key_blur_image ->
            IF n = 0
              THEN {BlurImage(3, 9, prob)}
            ELSE IF n = 2
              THEN {BlurImage(toInt(params[1]), toInt(params[2]), prob)}
            ELSE {invalid_argument("count", key_blur_image, {0, 2})}
       [] key = key_sharpen_image ->
            IF n = 0
              THEN {SharpenImage(prob)}
              ELSE {invalid_argument("count", key_sharpen_image, {0})}
       [] key = key_random_erase ->
            IF n = 0
              THEN {RandomErase(1, 10, 1, 10, prob)}
            ELSE IF n = 4
              THEN {RandomErase(toInt(params[1]), toInt(params[2]),
                                toInt(params[3]), toInt(params[4]), prob)}
            ELSE {invalid_argument("count", key_random_erase, {0, 4})}
       [] OTHER -> {invalid_argument("unrecognized", name, {})}

\* create(name, prob): the parameters are drawn from a generator seeded by
\* std::random_device
createRandom(name, prob) ==
  LET key == lowered(name)
  IN CASE key = key_rotate ->
            {RotateImage(a, b, 3, prob) :
               a \in Between(toDouble(-50), toDouble(0)),
               b \in Between(toDouble(0), toDouble(50))}
       [] key = key_reflect -> {ReflectImage(prob)}
       [] key = key_resize ->
            {ResizeImage_scale(fx, fy, prob) :
               fx \in Between(Unit \div 10, (9 * Unit) \div 10),
               fy \in Between(Unit \div 10, (9 * Unit) \div 10)}
       [] key = key_crop ->
            {CropImage_wh(w, h, prob) :
               w \in Between(0, 10), h \in Between(0, 10)}
       [] key = key_affine_transform ->
            {AffineTransform(matrix, prob) : matrix \in RandomMatrices}
       [] key = key_color_jitter ->
            {ColorJitter(b, c, s, h, prob) :
               b \in Between(toDouble(1), toDouble(3)),
               c \in Between(toDouble(1), toDouble(3)),
               s \in Between(toDouble(1), toDouble(3)),
               h \in Between(0, 6)}
       [] key = key_histogram_equalization -> {HistogramEqualization(prob)}
       [] key = key_white_balance -> {WhiteBalance(prob)}
       [] key = key_to_grayscale -> {ToGrayscale(prob)}
       [] key = key_adjust_brightness ->
            {Adjust("AdjustBrightness", a, b, prob) :
               a \in Between(Unit \div 2, Unit),
               b \in Between((11 * Unit) \div 10, (15 * Unit) \div 10)}
       [] key = key_adjust_contrast ->
            {Adjust("AdjustContrast", a, b, prob) :
               a \in Between(Unit \div 2, Unit),
               b \in Between((11 * Unit) \div 10, (15 * Unit) \div 10)}
       [] key = key_adjust_saturation ->
            {Adjust("AdjustSaturation", a, b, prob) :
               a \in Between(Unit \div 10, toDouble(2)),
               b \in Between((21 * Unit) \div 10, toDouble(5))}
       [] key = key_adjust_hue ->
            {Adjust("AdjustHue", a, b, prob) :
               a \in Between(1, 5), b \in Between(6, 10)}
       [] key = key_inject_noise ->
            {InjectNoise(toDouble(-10), toDouble(10), toDouble(0),
                         toDouble(20), prob)}
       [] key = key_blur_image -> {BlurImage(3, 9, prob)}
       [] key = key_sharpen_image -> {SharpenImage(prob)}
       [] key = key_random_erase -> {RandomErase(1, 10, 1, 10, prob)}
       [] OTHER -> {invalid_argument("unrecognized", name, {})}

\* op->apply(img, rng) as far as the fields of the operation decide it: the
\* call goes through ("ok"), it throws on a field it rejects ("threw"), or
\* it builds a std::uniform_*_distribution(a, b) with a > b, which is
\* undefined: the call goes through with some value or the library's
\* assertion ends the process ("abort")
applyOutcomes(e) ==
  LET f == e.fields
      dist(a, b) == IF a > b THEN {"ok", "abort"} ELSE {"ok"}
  IN CASE e.cls = "RotateImage" ->
            IF f[3] \in 0..2 THEN dist(f[1], f[2]) ELSE {"threw"}
       [] e.cls = "ResizeImage" ->
            IF f[3] = -1 THEN dist(f[1], f[2])
            ELSE IF f[1] = toDouble(-1)
              THEN dist(f[3], f[4]) \cup dist(f[5], f[6])
            ELSE {"threw"}
       [] e.cls \in {"AdjustBrightness", "AdjustContrast",
                     "AdjustSaturation", "AdjustHue", "BlurImage"} ->
            dist(f[1], f[2])
       [] e.cls = "InjectNoise" ->
            dist(f[1], f[2]) \cup dist(f[3], f[4])
       [] OTHER -> {"ok"}

\* The runs of the controller reduce pipeline.apply to its outcome (it returns
\* or it throws): no Pipeline::apply call is followed step by step.
NoApply ==
  /\ operations_ = << >>
  /\ base_seed_ = 0
  /\ seed = 0
  /\ images = [x \in Images |-> NoObject]
  /\ frame = [t \in Producers |-> NoFrame]
  /\ rand = [t \in Producers |-> [o \in Overloads |-> seeded(default_seed)]]
  /\ inv = [x \in Images |-> NoCall]
  /\ made = NoMade
  /\ applied = "none"

\* The program before run is called, by a caller that passes save_specs =
\* false
Init ==
  /\ CtlInit /\ global_id_ = 0 /\ NoApply /\ firstRun = NoRun
  /\ save_specs = FALSE

\* (variant: the threads are not started before the loops of run)
run_pushFirst(nPaths, iters) ==
  /\ ~aborted
  /\ ctl = "idle"
  /\ nPaths * iters <= (IF numThreads_ = 1 THEN MaxTasks ELSE MaxConcTasks)
  /\ image_paths' = nPaths
  /\ iterations' = iters
  /\ IF nPaths = 0
       THEN /\ ctl' = "returned"
            /\ UNCHANGED << totalTasks_, producers_, consumer_ >>
       ELSE IF iters <= 0
         THEN /\ ctl' = "threw"
              /\ UNCHANGED << totalTasks_, producers_, consumer_ >>
         ELSE /\ totalTasks_' = nPaths * iters
              /\ ctl' = "enqueue"
              /\ UNCHANGED << producers_, consumer_ >>
  /\ UNCHANGED << callvars, pipevars, firstRun,
                  numThreads_, queueCapacity, save_specs, qvars, pushed,
                  path, img,
                  image_batch, bidx, localSaveCount, global_id_, disk,
                  aborted, faults, histvars >>

\* ThreadController::run up to the first pathQueue_.push: the argument
\* checks, launchProducers and launchConsumer
run(nPaths, iters) ==
  /\ ~aborted
  /\ ctl = "idle"
  /\ nPaths * iters <= (IF numThreads_ = 1 THEN MaxTasks ELSE MaxConcTasks)
  /\ image_paths' = nPaths
  /\ iterations' = iters
  /\ IF nPaths = 0
       THEN /\ ctl' = "returned"
            /\ UNCHANGED << totalTasks_, producers_, consumer_ >>
       ELSE IF iters <= 0
         THEN /\ ctl' = "threw"
              /\ UNCHANGED << totalTasks_, producers_, consumer_ >>
         ELSE /\ totalTasks_' = nPaths * iters
              /\ producers_' = [p \in Producers |->
                                  IF p <= numThreads_ THEN "pop" ELSE "none"]
              /\ consumer_' = "init"
              /\ ctl' = "enqueue"
  /\ UNCHANGED << callvars, pipevars, firstRun,
                  numThreads_, queueCapacity, save_specs, qvars, pushed,
                  path, img,
                  image_batch, bidx, localSaveCount, global_id_, disk,
                  aborted, faults, histvars >>

\* One pathQueue_.push(path) of the nested loops of run
runPush ==
  /\ ~aborted
  /\ ctl = "enqueue"
  /\ pushed < totalTasks_
  /\ push(PathQ, TaskAt(pushed + 1, iterations))
  /\ pushed' = pushed + 1
  /\ UNCHANGED << callvars, pipevars, firstRun,
                  argvars, ctl, prodvars, consvars, global_id_, disk,
                  aborted, faults, histvars >>

\* (variant: closes the task queue without waiting for the loops to end)
runSetDone_early ==
  /\ ~aborted
  /\ ctl = "enqueue"
  /\ setDone(PathQ)
  /\ ctl' = "join_producers"
  /\ UNCHANGED << callvars, pipevars, firstRun,
                  argvars, pushed, prodvars, consvars, global_id_,
                  disk, aborted, faults, histvars >>

\* pathQueue_.setDone() after the loops of run
runSetDone ==
  /\ ~aborted
  /\ ctl = "enqueue"
  /\ pushed = totalTasks_
  /\ setDone(PathQ)
  /\ ctl' = "join_producers"
  /\ UNCHANGED << callvars, pipevars, firstRun,
                  argvars, pushed, prodvars, consvars, global_id_, disk,
                  aborted, faults, histvars >>

\* (variant: joins only the first producer thread)
joinProducers_firstOnly ==
  /\ ~aborted
  /\ ctl = "join_producers"
  /\ producers_[1] \in {"none", "exited"}
  /\ ctl' = "close_images"
  /\ UNCHANGED << callvars, pipevars, firstRun,
                  argvars, qvars, pushed, prodvars, consvars,
                  global_id_, disk, aborted, faults, histvars >>

\* (variant: run returns once the producers are joined)
joinProducers_returns ==
  /\ ~aborted
  /\ ctl = "join_producers"
  /\ \A p \in Producers : producers_[p] \in {"none", "exited"}
  /\ ctl' = "returned"
  /\ UNCHANGED << callvars, pipevars, firstRun,
                  argvars, qvars, pushed, prodvars, consvars, global_id_,
                  disk, aborted, faults, histvars >>

\* waitForCompletion: the joins of the producer threads
joinProducers ==
  /\ ~aborted
  /\ ctl = "join_producers"
  /\ \A p \in Producers : producers_[p] \in {"none", "exited"}
  /\ ctl' = "close_images"
  /\ UNCHANGED << callvars, pipevars, firstRun,
                  argvars, qvars, pushed, prodvars, consvars, global_id_,
                  disk, aborted, faults, histvars >>

\* waitForCompletion: imageQueue_.setDone()
closeImages ==
  /\ ~aborted
  /\ ctl = "close_images"
  /\ setDone(ImageQ)
  /\ ctl' = "join_consumer"
  /\ UNCHANGED << callvars, pipevars, firstRun,
                  argvars, pushed, prodvars, consvars, global_id_, disk,
                  aborted, faults, histvars >>

\* waitForCompletion: consumer_.join(), then run returns
joinConsumer ==
  /\ ~aborted
  /\ ctl = "join_consumer"
  /\ consumer_ = "exited"
  /\ ctl' = "returned"
  /\ UNCHANGED << callvars, pipevars, firstRun,
                  argvars, qvars, pushed, prodvars, consvars, global_id_,
                  disk, aborted, faults, histvars >>

\* ----------------------------------------------------------- producerPool
\* while (pathQueue.pop(path)): the call, or its resumption after a wake-up
producerPop(p) ==
  /\ ~aborted
  /\ producers_[p] \in {"pop", "pop_wait"}
  /\ pop(PathQ, p)
  /\ IF ~popReady(PathQ)
       THEN /\ producers_' = [producers_ EXCEPT ![p] = "pop_wait"]
            /\ UNCHANGED << path, taken >>
       ELSE IF popOk(PathQ)
         THEN /\ producers_' = [producers_ EXCEPT ![p] = "build"]
              /\ path' = [path EXCEPT ![p] = Head(queue_[PathQ])]
              /\ taken' = taken (+) SetToBag({Head(queue_[PathQ])})
         ELSE /\ producers_' = [producers_ EXCEPT ![p] = "exited"]
              /\ UNCHANGED << path, taken >>
  /\ UNCHANGED << callvars, pipevars, firstRun,
                  argvars, ctl, pushed, img, consvars, global_id_, disk,
                  aborted, faults, produced, writeFailed,
                  plainSaved, dropped >>

\* (variant: the id is read from the counter and the counter is left as it
\* was)
producerBuild_noIncrement(p) ==
  /\ ~aborted
  /\ producers_[p] = "build"
  /\ global_id_' = global_id_
  /\ \E readable \in BOOLEAN, applyThrows \in BOOLEAN :
       /\ (~readable \/ applyThrows) => faults < MaxFaults
       /\ faults' = IF ~readable \/ applyThrows THEN faults + 1 ELSE faults
       /\ IF applyThrows
            THEN /\ producers_' = [producers_ EXCEPT ![p] = "pop"]
                 /\ img' = img
                 /\ dropped' = dropped \cup {path[p]}
            ELSE /\ producers_' = [producers_ EXCEPT ![p] = "push"]
                 /\ img' = [img EXCEPT ![p] =
                              [id |-> global_id_, path |-> path[p].path,
                               i |-> path[p].i, empty |-> ~readable]]
                 /\ dropped' = dropped
  /\ path' = [path EXCEPT ![p] = NoPath]
  /\ UNCHANGED << callvars, pipevars, firstRun,
                  argvars, qvars, ctl, pushed, consvars, disk,
                  aborted, taken, produced, writeFailed,
                  plainSaved >>

\* (variant: an exception in the try block ends the producer thread)
producerBuild_exitsOnThrow(p) ==
  /\ ~aborted
  /\ producers_[p] = "build"
  /\ global_id_' = global_id_ + 1
  /\ \E readable \in BOOLEAN, applyThrows \in BOOLEAN :
       /\ (~readable \/ applyThrows) => faults < MaxFaults
       /\ faults' = IF ~readable \/ applyThrows THEN faults + 1 ELSE faults
       /\ IF applyThrows
            THEN /\ producers_' = [producers_ EXCEPT ![p] = "exited"]
                 /\ img' = img
                 /\ dropped' = dropped \cup {path[p]}
            ELSE /\ producers_' = [producers_ EXCEPT ![p] = "push"]
                 /\ img' = [img EXCEPT ![p] =
                              [id |-> global_id_, path |-> path[p].path,
                               i |-> path[p].i, empty |-> ~readable]]
                 /\ dropped' = dropped
  /\ path' = [path EXCEPT ![p] = NoPath]
  /\ UNCHANGED << callvars, pipevars, firstRun,
                  argvars, qvars, ctl, pushed, consvars, disk,
                  aborted, taken, produced, writeFailed,
                  plainSaved >>

\* Image img(path); pipeline.apply(img);  -- inside the try block.
\* Image::Image(path) takes the next id and reads the file; an unreadable
\* file leaves data_ empty and does not throw.  pipeline.apply may throw;
\* the catch block logs and the loop goes on to the next pop.  `path` is not
\* read again before the next pop overwrites it.
producerBuild(p) ==
  /\ ~aborted
  /\ producers_[p] = "build"
  /\ global_id_' = global_id_ + 1
  /\ \E readable \in BOOLEAN, applyThrows \in BOOLEAN :
       /\ (~readable \/ applyThrows) => faults < MaxFaults
       /\ faults' = IF ~readable \/ applyThrows THEN faults + 1 ELSE faults
       /\ IF applyThrows
            THEN /\ producers_' = [producers_ EXCEPT ![p] = "pop"]
                 /\ img' = img
                 /\ dropped' = dropped \cup {path[p]}
            ELSE /\ producers_' = [producers_ EXCEPT ![p] = "push"]
                 /\ img' = [img EXCEPT ![p] =
                              [id |-> global_id_, path |-> path[p].path,
                               i |-> path[p].i, empty |-> ~readable]]
                 /\ dropped' = dropped
  /\ path' = [path EXCEPT ![p] = NoPath]
  /\ UNCHANGED << callvars, pipevars, firstRun,
                  argvars, qvars, ctl, pushed, consvars, disk,
                  aborted, taken, produced, writeFailed,
                  plainSaved >>

\* (variant: the image is copied into the queue and the producer keeps its
\* own)
producerPush_keepsImage(p) ==
  /\ ~aborted
  /\ producers_[p] = "push"
  /\ push(ImageQ, img[p])
  /\ produced' = produced \cup {img[p]}
  /\ img' = img
  /\ producers_' = [producers_ EXCEPT ![p] = "pop"]
  /\ UNCHANGED << callvars, pipevars, firstRun,
                  argvars, ctl, pushed, path, consvars, global_id_, disk,
                  aborted, faults, taken, writeFailed,
                  plainSaved, dropped >>

\* outputQueue.push(std::move(img));
producerPush(p) ==
  /\ ~aborted
  /\ producers_[p] = "push"
  /\ push(ImageQ, img[p])
  /\ produced' = produced \cup {img[p]}
  /\ img' = [img EXCEPT ![p] = NoImage]
  /\ producers_' = [producers_ EXCEPT ![p] = "pop"]
  /\ UNCHANGED << callvars, pipevars, firstRun,
                  argvars, ctl, pushed, path, consvars, global_id_, disk,
                  aborted, faults, taken, writeFailed,
                  plainSaved, dropped >>

\* --------------------------------------------------------- consumerThread
\* Image img;  -- the default constructor takes an id
consumerInit ==
  /\ ~aborted
  /\ consumer_ = "init"
  /\ global_id_' = global_id_ + 1
  /\ consumer_' = "pop"
  /\ UNCHANGED << callvars, pipevars, firstRun,
                  argvars, qvars, ctl, pushed, prodvars, image_batch, bidx,
                  localSaveCount, disk, aborted, faults, histvars >>

\* (variant: leaves the thread when pop reports false, without the final
\* range-for over image_batch)
consumerPop_noFlush ==
  /\ ~aborted
  /\ consumer_ \in {"pop", "pop_wait"}
  /\ pop(ImageQ, Consumer)
  /\ IF ~popReady(ImageQ)
       THEN /\ consumer_' = "pop_wait"
            /\ UNCHANGED << image_batch, bidx >>
       ELSE IF popOk(ImageQ)
         THEN /\ image_batch' = Append(image_batch, Head(queue_[ImageQ]))
              /\ IF Len(image_batch) + 1 >= batchSize
                   THEN consumer_' = "save" /\ bidx' = 1
                   ELSE consumer_' = "pop" /\ bidx' = 0
         ELSE /\ image_batch' = image_batch
              /\ consumer_' = "exited" /\ bidx' = 0
  /\ UNCHANGED << callvars, pipevars, firstRun,
                  argvars, ctl, pushed, prodvars, localSaveCount,
                  global_id_, disk, aborted, faults, histvars >>

\* while (queue.pop(img)) { image_batch.push_back(std::move(img));
\*                          if (image_batch.size() >= batchSize) ...
\* and, when pop reports false, the test of image_batch.empty()
consumerPop ==
  /\ ~aborted
  /\ consumer_ \in {"pop", "pop_wait"}
  /\ pop(ImageQ, Consumer)
  /\ IF ~popReady(ImageQ)
       THEN /\ consumer_' = "pop_wait"
            /\ UNCHANGED << image_batch, bidx >>
       ELSE IF popOk(ImageQ)
         THEN /\ image_batch' = Append(image_batch, Head(queue_[ImageQ]))
              /\ IF Len(image_batch) + 1 >= batchSize
                   THEN consumer_' = "save" /\ bidx' = 1
                   ELSE consumer_' = "pop" /\ bidx' = 0
         ELSE /\ image_batch' = image_batch
              /\ IF image_batch # << >>
                   THEN consumer_' = "flush" /\ bidx' = 1
                   ELSE consumer_' = "exited" /\ bidx' = 0
  /\ UNCHANGED << callvars, pipevars, firstRun,
                  argvars, ctl, pushed, prodvars, localSaveCount, global_id_,
                  disk, aborted, faults, histvars >>

\* Image::save / Image::saveWithHistory of one image: the file is written
\* ("ok"), the call returns -1 ("fail"), or it throws ("throw": the
\* filesystem calls throw, and cv::imwrite throws on an empty matrix).
SaveOutcomes(image) ==
  IF image.empty THEN {"fail", "throw"}
  ELSE {"ok"} \cup (IF faults < MaxFaults THEN {"fail", "throw"} ELSE {})

\* One iteration of the range-for inside the try block of the while loop
consumerSave ==
  /\ ~aborted
  /\ consumer_ = "save"
  /\ \E outcome \in SaveOutcomes(image_batch[bidx]) :
       /\ faults' = IF outcome # "ok" /\ ~image_batch[bidx].empty
                      THEN faults + 1 ELSE faults
       /\ writeFailed' = (writeFailed \/ outcome # "ok")
       /\ disk' = IF outcome = "ok"
                    THEN disk (+) SetToBag({image_batch[bidx]}) ELSE disk
       \* if (save_specs) image.saveWithHistory(outputDir);
       \* else image.save(outputDir);
       /\ plainSaved' = IF outcome = "ok" /\ ~save_specs
                          THEN plainSaved \cup {image_batch[bidx]}
                          ELSE plainSaved
       /\ IF outcome = "throw"
            THEN \* caught by the catch block of the loop body
                 /\ consumer_' = "pop"
                 /\ bidx' = 0
                 /\ UNCHANGED << image_batch, localSaveCount >>
            ELSE /\ localSaveCount' = localSaveCount + 1
                 /\ IF bidx = Len(image_batch)
                      THEN /\ image_batch' = << >>
                           /\ consumer_' = "pop"
                           /\ bidx' = 0
                      ELSE /\ bidx' = bidx + 1
                           /\ UNCHANGED << image_batch, consumer_ >>
  /\ UNCHANGED << callvars, pipevars, firstRun,
                  argvars, qvars, ctl, pushed, prodvars, global_id_, aborted,
                  taken, produced, dropped >>

\* One iteration of the range-for after the while loop (no try block: an
\* exception leaves the thread function and std::terminate is called)
consumerFlush ==
  /\ ~aborted
  /\ consumer_ = "flush"
  /\ \E outcome \in SaveOutcomes(image_batch[bidx]) :
       /\ faults' = IF outcome # "ok" /\ ~image_batch[bidx].empty
                      THEN faults + 1 ELSE faults
       /\ writeFailed' = (writeFailed \/ outcome # "ok")
       /\ disk' = IF outcome = "ok"
                    THEN disk (+) SetToBag({image_batch[bidx]}) ELSE disk
       \* image.save(outputDir);
       /\ plainSaved' = IF outcome = "ok"
                          THEN plainSaved \cup {image_batch[bidx]}
                          ELSE plainSaved
       /\ IF outcome = "throw"
            THEN /\ aborted' = TRUE
                 /\ consumer_' = "crashed"
                 /\ UNCHANGED << image_batch, bidx >>
            ELSE /\ aborted' = aborted
                 /\ IF bidx = Len(image_batch)
                      THEN /\ image_batch' = << >>
                           /\ consumer_' = "exited"
                           /\ bidx' = 0
                      ELSE /\ bidx' = bidx + 1
                           /\ UNCHANGED << image_batch, consumer_ >>
  /\ UNCHANGED << callvars, pipevars, firstRun,
                  argvars, qvars, ctl, pushed, prodvars, localSaveCount,
                  global_id_, taken, produced, dropped >>

\* ------------------------------------------- direct callers of a SafeQueue
\* SafeQueue is a public class: any thread may call push, pop and setDone of
\* a queue in any order (main.cpp drives a SafeQueue<Image> by hand).  The
\* threads of Clients call imageQueue_ of a controller that is not running.

\* A thread issues push(item): the call is pending until it gets the mutex
callPush(c) ==
  /\ call[c] = "idle"
  /\ nextItem <= MaxItems
  /\ call' = [call EXCEPT ![c] = "push"]
  /\ arg' = [arg EXCEPT ![c] = nextItem]
  /\ ret' = [ret EXCEPT ![c] = NoRet]
  /\ nextItem' = nextItem + 1
  /\ UNCHANGED << qvars, pushLog, popLog, closeLen, okSince, pushSince,
                  reclosed, ctlvars, pipevars, firstRun >>

\* The body of SafeQueue::push runs and the call returns
doPush(c) ==
  /\ call[c] = "push"
  /\ push(ImageQ, arg[c])
  /\ call' = [call EXCEPT ![c] = "idle"]
  /\ arg' = [arg EXCEPT ![c] = 0]
  /\ pushSince' = (pushSince \/ Len(queue_'[ImageQ]) > Len(queue_[ImageQ]))
  /\ pushLog' = Append(pushLog, [item |-> arg[c], by |-> c])
  /\ UNCHANGED << ret, nextItem, popLog, closeLen, okSince, reclosed, ctlvars,
                  pipevars, firstRun >>

\* A thread issues pop(item)
callPop(c) ==
  /\ call[c] = "idle"
  /\ call' = [call EXCEPT ![c] = "pop"]
  /\ ret' = [ret EXCEPT ![c] = NoRet]
  /\ UNCHANGED << qvars, arg, nextItem, pushLog, popLog, closeLen, okSince,
                  pushSince, reclosed, ctlvars, pipevars, firstRun >>

\* The body of SafeQueue::pop runs, or resumes after a wake-up: the call
\* blocks, or returns true with the front item, or returns false
doPop(c) ==
  /\ call[c] \in {"pop", "pop_wait"}
  /\ pop(ImageQ, c)
  /\ IF ~popReady(ImageQ)
       THEN /\ call' = [call EXCEPT ![c] = "pop_wait"]
            /\ UNCHANGED << ret, okSince, popLog >>
       ELSE /\ call' = [call EXCEPT ![c] = "idle"]
            /\ ret' = [ret EXCEPT ![c] =
                         IF popOk(ImageQ)
                           THEN [ok |-> TRUE, item |-> Head(queue_[ImageQ])]
                           ELSE NoRet]
            /\ okSince' = IF popOk(ImageQ) /\ done_[ImageQ]
                            THEN okSince + 1 ELSE okSince
            /\ popLog' = IF popOk(ImageQ)
                           THEN Append(popLog, ret'[c].item) ELSE popLog
  /\ UNCHANGED << arg, nextItem, pushLog, closeLen, pushSince, reclosed,
                  ctlvars, pipevars, firstRun >>

\* A thread calls setDone()
callSetDone(c) ==
  /\ call[c] = "idle"
  /\ setDone(ImageQ)
  /\ closeLen' = Len(queue_[ImageQ])
  /\ okSince' = 0
  /\ pushSince' = FALSE
  /\ reclosed' = (reclosed \/ done_[ImageQ])
  /\ ret' = [ret EXCEPT ![c] = NoRet]
  /\ UNCHANGED << call, arg, nextItem, pushLog, popLog, ctlvars, pipevars,
                  firstRun >>

QueueNext ==
  \/ \E c \in Clients : callPush(c)
  \/ \E c \in Clients : doPush(c)
  \/ \E c \in Clients : callPop(c)
  \/ \E c \in Clients : doPop(c)
  \/ \E c \in Clients : callSetDone(c)
  \/ \E c \in Clients : SpuriousWake(ImageQ, c)

QueueInit == Init /\ numThreads_ = 1

QueueSpec == QueueInit /\ [][QueueNext]_vars

\* Scheduling: a thread that is inside a SafeQueue call and not blocked in
\* cv_.wait keeps being scheduled.  Nothing forces a thread to issue a call.
QueueFairness ==
  \A c \in Clients : WF_vars(doPop(c)) /\ WF_vars(doPush(c))

FairQueueSpec == QueueInit /\ [][QueueNext]_vars /\ QueueFairness

\* ------------------------------------------------------------ the program
Next ==
  \/ \E nPaths \in 0..MaxPaths, iters \in 0..MaxIter : run(nPaths, iters)
  \/ runPush
  \/ runSetDone
  \/ joinProducers
  \/ closeImages
  \/ joinConsumer
  \/ \E p \in Producers : producerPop(p)
  \/ \E p \in Producers : producerBuild(p)
  \/ \E p \in Producers : producerPush(p)
  \/ consumerInit
  \/ consumerPop
  \/ consumerSave
  \/ consumerFlush
  \/ \E q \in QNames, t \in Producers \cup {Consumer} : SpuriousWake(q, t)

Spec == Init /\ [][Next]_vars

\* A controller with one producer thread whose caller passes save_specs =
\* true
HistoryInit ==
  /\ CtlInit /\ global_id_ = 0 /\ NoApply /\ firstRun = NoRun
  /\ numThreads_ = 1
  /\ save_specs = TRUE

HistorySpec == HistoryInit /\ [][Next]_vars

\* Scheduling: every started thread keeps being scheduled (the orchestrator,
\* each producer, the consumer).  Nothing forces a spurious wake-up, and
\* nothing forces a caller to call run.
Fairness ==
  /\ WF_vars(runPush)
  /\ WF_vars(runSetDone)
  /\ WF_vars(joinProducers)
  /\ WF_vars(closeImages)
  /\ WF_vars(joinConsumer)
  /\ \A p \in Producers :
       /\ WF_vars(producerPop(p))
       /\ WF_vars(producerBuild(p))
       /\ WF_vars(producerPush(p))
  /\ WF_vars(consumerInit)
  /\ WF_vars(consumerPop)
  /\ WF_vars(consumerSave)
  /\ WF_vars(consumerFlush)

FairSpec == Init /\ [][Next]_vars /\ Fairness

\* ------------------------------------------- two executions of the program
\* The process ends after run has returned and the program is started again
\* with the same configuration: every static is initialised anew
\* (Image::global_id_{0}) and the controller is constructed with the same
\* arguments.  What the first execution did is kept in firstRun.
restart ==
  /\ ctl = "returned"
  /\ firstRun = NoRun
  /\ image_paths > 0
  /\ totalTasks_ <= MaxRerunTasks
  /\ firstRun' = [paths |-> image_paths, iters |-> iterations,
                  ids |-> {[path |-> im.path, i |-> im.i, id |-> im.id] :
                             im \in produced}]
  /\ ctl' = "idle"
  /\ queue_' = [q \in QNames |-> << >>]
  /\ done_' = [q \in QNames |-> FALSE]
  /\ cv_' = [q \in QNames |-> {}]
  /\ image_paths' = 0
  /\ iterations' = 0
  /\ totalTasks_' = 0
  /\ pushed' = 0
  /\ producers_' = [p \in Producers |-> "none"]
  /\ path' = [p \in Producers |-> NoPath]
  /\ img' = [p \in Producers |-> NoImage]
  /\ consumer_' = "none"
  /\ image_batch' = << >>
  /\ bidx' = 0
  /\ localSaveCount' = 0
  /\ global_id_' = 0
  /\ disk' = EmptyBag
  /\ faults' = 0
  /\ taken' = EmptyBag
  /\ produced' = {}
  /\ writeFailed' = FALSE
  /\ plainSaved' = {}
  /\ dropped' = {}
  /\ UNCHANGED << numThreads_, queueCapacity, save_specs, aborted, callvars,
                  pipevars >>

RerunNext ==
  \/ \E nPaths \in 0..MaxPaths, iters \in 0..MaxIter :
       /\ firstRun # NoRun =>
            (nPaths = firstRun.paths /\ iters = firstRun.iters)
       /\ run(nPaths, iters)
  \/ runPush
  \/ runSetDone
  \/ joinProducers
  \/ closeImages
  \/ joinConsumer
  \/ \E p \in Producers : producerPop(p)
  \/ \E p \in Producers : producerBuild(p)
  \/ \E p \in Producers : producerPush(p)
  \/ consumerInit
  \/ consumerPop
  \/ consumerSave
  \/ consumerFlush
  \/ \E q \in QNames, t \in Producers \cup {Consumer} : SpuriousWake(q, t)
  \/ restart

RerunSpec == Init /\ [][RerunNext]_vars

\* ------------------------------------------ two calls of run on one object
\* ThreadController::run called again on the controller whose first call has
\* returned.  Nothing of the object is reset: both queues keep done_ = true,
\* Image::global_id_ goes on counting, the files of the first call stay on
\* disk.  launchProducers appends numThreads_ new threads to producers_ (the
\* joined ones of the first call stay in the vector, not joinable) and
\* launchConsumer assigns a new thread to consumer_.  The history variables
\* start again for the second call; what the first call did is kept in
\* firstRun.
runAgain(nPaths, iters) ==
  /\ ~aborted
  /\ ctl = "returned"
  /\ firstRun = NoRun
  /\ image_paths > 0
  /\ totalTasks_ <= MaxRerunTasks
  /\ nPaths * iters <= MaxRerunTasks
  /\ firstRun' = [paths |-> image_paths, iters |-> iterations,
                  ids |-> {[path |-> im.path, i |-> im.i, id |-> im.id] :
                             im \in produced}]
  /\ image_paths' = nPaths
  /\ iterations' = iters
  /\ pushed' = 0
  /\ taken' = EmptyBag
  /\ produced' = {}
  /\ writeFailed' = FALSE
  /\ plainSaved' = {}
  /\ dropped' = {}
  /\ IF nPaths = 0
       THEN /\ ctl' = "returned"
            /\ UNCHANGED << totalTasks_, producers_, consumer_ >>
       ELSE IF iters <= 0
         THEN /\ ctl' = "threw"
              /\ UNCHANGED << totalTasks_, producers_, consumer_ >>
         ELSE /\ totalTasks_' = nPaths * iters
              /\ producers_' = [p \in Producers |->
                                  IF p <= numThreads_ THEN "pop" ELSE "none"]
              /\ consumer_' = "init"
              /\ ctl' = "enqueue"
  /\ UNCHANGED << callvars, pipevars, numThreads_, queueCapacity, save_specs,
                  qvars, path, img, image_batch, bidx, localSaveCount,
                  global_id_, disk, aborted, faults >>

SecondRunNext ==
  \/ Next
  \/ \E nPaths \in 0..MaxPaths, iters \in 0..MaxIter : runAgain(nPaths, iters)

SecondRunSpec == Init /\ [][SecondRunNext]_vars

\* --------------------------------------------------------- Pipeline::apply
\* Threads call the two overloads of apply of one Pipeline on two images,
\* each image being handed to apply once.  One step of a call is its entry
\* (seeding the generator) or one iteration of its range-for.

\* Entry of apply(img) or apply(img, seed) by thread t on image x, up to the
\* range-for; with an empty list the call returns at once
applyStart(t, x, o) ==
  /\ frame[t] = NoFrame
  /\ inv[x].state = "none"
  /\ LET s == IF o = "derived" THEN derivedSeed(base_seed_, images[x].id)
                               ELSE seed
         n == Len(operations_)
     IN /\ rand' = [rand EXCEPT ![gen(t)][o] = seeded(s)]
        /\ inv' = [inv EXCEPT ![x] =
                     [overload |-> o, seed |-> s,
                      state |-> IF n = 0 THEN "returned" ELSE "running",
                      drawn |-> << >>, decided |-> << >>]]
        /\ frame' = [frame EXCEPT ![t] =
                       IF n = 0 THEN NoFrame
                                ELSE [img |-> x, overload |-> o, k |-> 1]]
  /\ UNCHANGED << operations_, base_seed_, seed, images, qvars, ctlvars,
                  callvars, firstRun, made, applied >>

\* (variant: the exception of an operation is caught inside the loop and the
\* range-for goes on with the next entry)
applyEntry_goesOnAfterThrow(t) ==
  /\ frame[t] # NoFrame
  /\ LET x == frame[t].img
         o == frame[t].overload
         n == Len(operations_)
         k == entryOrder(n, frame[t].k)
         e == operations_[k]
         u == engineNext(rand[gen(t)][o])
         ran == runs(u, e.prob)
         vals == Stream(u, IF ran THEN OpDraws(e.op) ELSE 0)
         g == IF vals = << >> THEN u ELSE vals[Len(vals)]
         throws == ran /\ OpThrows(e.op, images[x].data)
         last == frame[t].k = n
     IN \E own \in (IF ran THEN OpOwn(e.op, images[x].data) ELSE {0}) :
          /\ rand' = [rand EXCEPT ![gen(t)][o] = g]
          /\ inv' = [inv EXCEPT
                       ![x].drawn = (@ \o << u >>) \o vals,
                       ![x].decided = Append(@, [k |-> k, u |-> u,
                                                 ran |-> ran, params |-> vals,
                                                 own |-> own]),
                       ![x].state = IF throws THEN "threw"
                                    ELSE IF last /\ @ = "running"
                                      THEN "returned" ELSE @]
          /\ images' = IF ran /\ ~throws
                        THEN [images EXCEPT ![x].history =
                                logOperation(@, OpLog(e.op, vals))]
                        ELSE images
          /\ frame' = [frame EXCEPT ![t] =
                         IF last THEN NoFrame
                                 ELSE [@ EXCEPT !.k = @ + 1]]
  /\ UNCHANGED << operations_, base_seed_, seed, qvars, ctlvars, callvars,
                  firstRun, made, applied >>

\* One iteration of the range-for of the call thread t is in: the coin flip
\* and, if it succeeds, op.func(img, rand).  An exception of the operation
\* leaves apply; after the last element apply returns.
applyEntry(t) ==
  /\ frame[t] # NoFrame
  /\ LET x == frame[t].img
         o == frame[t].overload
         n == Len(operations_)
         k == entryOrder(n, frame[t].k)
         e == operations_[k]
         u == engineNext(rand[gen(t)][o])
         ran == runs(u, e.prob)
         vals == Stream(u, IF ran THEN OpDraws(e.op) ELSE 0)
         g == IF vals = << >> THEN u ELSE vals[Len(vals)]
         throws == ran /\ OpThrows(e.op, images[x].data)
         last == frame[t].k = n
     IN \E own \in (IF ran THEN OpOwn(e.op, images[x].data) ELSE {0}) :
          /\ rand' = [rand EXCEPT ![gen(t)][o] = g]
          /\ inv' = [inv EXCEPT
                       ![x].drawn = (@ \o << u >>) \o vals,
                       ![x].decided = Append(@, [k |-> k, u |-> u,
                                                 ran |-> ran, params |-> vals,
                                                 own |-> own]),
                       ![x].state = IF throws THEN "threw"
                                    ELSE IF last THEN "returned" ELSE @]
          /\ images' = IF ran /\ ~throws
                        THEN [images EXCEPT ![x].history =
                                logOperation(@, OpLog(e.op, vals))]
                        ELSE images
          /\ frame' = [frame EXCEPT ![t] =
                         IF throws \/ last THEN NoFrame
                                           ELSE [@ EXCEPT !.k = @ + 1]]
  /\ UNCHANGED << operations_, base_seed_, seed, qvars, ctlvars, callvars,
                  firstRun, made, applied >>

ApplyNext ==
  \/ \E t \in Producers, x \in Images, o \in Overloads : applyStart(t, x, o)
  \/ \E t \in Producers : applyEntry(t)

\* A Pipeline with its base seed and its list of operations, and two images
\* constructed from files in a process that has built no other image: imgA
\* first (id 0), imgB second (id 1); no thread has called apply yet
ApplyInit ==
  /\ CtlInit
  /\ save_specs = FALSE
  /\ numThreads_ = 1
  /\ firstRun = NoRun
  /\ global_id_ = 2
  /\ operations_ \in Pipelines
  /\ base_seed_ \in 0..MaxSeed
  /\ seed \in 0..MaxSeed
  /\ \E nameA, nameB \in 1..MaxNames, dataA, dataB \in 0..MaxPixels :
       images = [x \in Images |->
                  IF x = "imgA"
                    THEN [id |-> 0, name |-> nameA, data |-> dataA,
                          history |-> << >>]
                    ELSE [id |-> 1, name |-> nameB, data |-> dataB,
                          history |-> << >>]]
  /\ frame = [t \in Producers |-> NoFrame]
  /\ rand = [t \in Producers |-> [o \in Overloads |-> seeded(default_seed)]]
  /\ inv = [x \in Images |-> NoCall]
  /\ made = NoMade
  /\ applied = "none"

ApplySpec == ApplyInit /\ [][ApplyNext]_vars

\* ------------------------------------------- callers of the OperationFactory
\* A caller builds one operation entry with either create function, may
\* apply the operation, and may add it to a Pipeline.

\* std::toupper on a lower-case letter (to write the names callers pass)
toupper(c) == IF c \in 97..122 THEN c - 32 ELSE c

\* A registered name as written: lower case, all capitals, first capital
CaseForms(key) ==
  { key,
    [i \in DOMAIN key |-> toupper(key[i])],
    [i \in DOMAIN key |-> IF i = 1 THEN toupper(key[i]) ELSE key[i]] }

\* "rotat", "flip", "crop " (with a trailing blank): not registered
UnknownNames ==
  { << 114, 111, 116, 97, 116 >>,
    << 102, 108, 105, 112 >>,
    << 99, 114, 111, 112, 32 >> }

InputNames == UNION {CaseForms(key) : key \in Keys} \cup UnknownNames

\* -1.0, 0.0, 0.5 and 3.0
ParamValues == {toDouble(-1), 0, Unit \div 2, toDouble(3)}

\* Every list of up to MaxVaried values, and the longer lists of zeros
ParamLists ==
  UNION {[1..n -> ParamValues] : n \in 0..MaxVaried}
    \cup {[i \in 1..n |-> 0] : n \in (MaxVaried + 1)..MaxParams}

\* Probabilities are in units of 1/UIntMod, as in Probs
ProbInputs == {-1, 0, UIntMod \div 2, UIntMod, UIntMod + 1}

\* OperationFactory::create(name, params, prob)
callCreate(name, params, prob) ==
  /\ made = NoMade
  /\ \E r \in create(name, params, prob) :
       made' = [variant |-> "params", name |-> name, params |-> params,
                prob |-> prob, result |-> r]
  /\ UNCHANGED << operations_, base_seed_, seed, images, frame, rand, inv,
                  applied, qvars, ctlvars, callvars, firstRun >>

\* OperationFactory::create(name, prob)
callCreateRandom(name, prob) ==
  /\ made = NoMade
  /\ \E r \in createRandom(name, prob) :
       made' = [variant |-> "random", name |-> name, params |-> << >>,
                prob |-> prob, result |-> r]
  /\ UNCHANGED << operations_, base_seed_, seed, images, frame, rand, inv,
                  applied, qvars, ctlvars, callvars, firstRun >>

\* entry.op->apply(img, rng) on the entry the create call returned
applyOperation ==
  /\ made.result.kind = "entry"
  /\ applied = "none"
  /\ \E outcome \in applyOutcomes(made.result) : applied' = outcome
  /\ UNCHANGED << operations_, base_seed_, seed, images, frame, rand, inv,
                  made, qvars, ctlvars, callvars, firstRun >>

\* Pipeline::addOperation(op, prob)
addOperation(op, prob) ==
  /\ Len(operations_) < MaxOps
  /\ operations_' = Append(operations_, [op |-> op, prob |-> prob])
  /\ UNCHANGED << base_seed_, seed, images, frame, rand, inv, made, applied,
                  qvars, ctlvars, callvars, firstRun >>

FactoryNext ==
  \/ /\ made = NoMade
     /\ \E name \in InputNames, params \in ParamLists, prob \in ProbInputs :
          callCreate(name, params, prob)
  \/ /\ made = NoMade
     /\ \E name \in InputNames, prob \in ProbInputs :
          callCreateRandom(name, prob)
  \/ applyOperation
  \/ /\ made.result.kind = "entry"
     /\ addOperation(made.result.cls, made.result.prob)

\* A process that has built no operation and holds an empty Pipeline
FactoryInit == Init /\ numThreads_ = 1

FactorySpec == FactoryInit /\ [][FactoryNext]_vars

\* -------------------------------------------------------------- Image::save
\* File names are strings: sequences of characters.

\* The k-th path of image_paths: "d/a.jpg", "e/a.jpg" (the same base name in
\* another directory), "a_1.jpg", "a_.jpg", and "a.jpg" for any further one
pathName(k) ==
  CASE k = 1 -> << "d", "/", "a", ".", "j", "p", "g" >>
    [] k = 2 -> << "e", "/", "a", ".", "j", "p", "g" >>
    [] k = 3 -> << "a", "_", "1", ".", "j", "p", "g" >>
    [] k = 4 -> << "a", "_", ".", "j", "p", "g" >>
    [] OTHER -> << "a", ".", "j", "p", "g" >>

\* The last position of character c in string s, 0 if there is none
lastOf(s, c) ==
  LET at == {k \in DOMAIN s : s[k] = c}
  IN IF at = {} THEN 0 ELSE CHOOSE k \in at : \A j \in at : j <= k

\* fs::path(name).stem(): the last component without its extension
stem(name) ==
  LET file == SubSeq(name, lastOf(name, "/") + 1, Len(name))
      dot  == lastOf(file, ".")
  IN IF dot <= 1 THEN file ELSE SubSeq(file, 1, dot - 1)

\* std::to_string of a size_t
RECURSIVE to_string(_)
to_string(n) ==
  LET digit == << "0", "1", "2", "3", "4", "5", "6", "7", "8", "9" >>
  IN IF n < 10 THEN << digit[n + 1] >>
     ELSE Append(to_string(n \div 10), digit[(n % 10) + 1])

\* The default extension of save
ext == << ".", "p", "n", "g" >>

\* (variant: the file is named after the source alone)
outputPath_noId(image) ==
  LET base == IF image.path = 0 THEN << "i", "m", "a", "g", "e" >>
                                ELSE stem(pathName(image.path))
  IN base \o ext

\* The file name save writes image to, inside the output directory
outputPath(image) ==
  LET base == IF image.path = 0 THEN << "i", "m", "a", "g", "e" >>
                                ELSE stem(pathName(image.path))
  IN ((base \o << "_" >>) \o to_string(image.id)) \o ext

\* ------------------------------------------------------------------ claims
\* The tasks run has pushed so far
PushedTasks == {TaskAt(t, iterations) : t \in 1..pushed}

\* C1: while imageQueue_ (built with queueCapacity) is open, it buffers at
\* most queueCapacity items.
C1_SizeAtMostCapacityWhileOpen ==
  ~done_[ImageQ] => Len(queue_[ImageQ]) <= queueCapacity

\* C2: every task pushed onto the task queue is popped exactly once, by one
\* producer: no task is popped twice or held by two producers, only pushed
\* tasks are popped, and when run returns every task has been popped and the
\* task queue is empty.
C2_TaskPoppedExactlyOnce ==
  /\ \A task \in BagToSet(taken) :
       CopiesIn(task, taken) = 1 /\ task \in PushedTasks
  /\ \A p1, p2 \in Producers :
       (p1 # p2 /\ producers_[p1] = "build" /\ producers_[p2] = "build")
         => path[p1] # path[p2]
  /\ (ctl = "returned" /\ image_paths > 0) =>
       /\ queue_[PathQ] = << >>
       /\ pushed = image_paths * iterations
       /\ \A task \in PushedTasks : CopiesIn(task, taken) = 1

C2_Witness ==
  /\ ctl = "returned"
  /\ numThreads_ = 2
  /\ BagCardinality(taken) = MaxConcTasks

\* C3: when no write fails, every image a producer pushed onto the result
\* queue is on disk exactly once when run returns, and no image is ever
\* written twice or written without having been pushed.
C3_PersistedExactlyOnce ==
  ~writeFailed =>
    /\ \A image \in BagToSet(disk) :
         CopiesIn(image, disk) = 1 /\ image \in produced
    /\ (ctl = "returned") =>
         \A image \in produced : CopiesIn(image, disk) = 1

C3_Witness ==
  /\ ctl = "returned"
  /\ ~writeFailed
  /\ Cardinality(produced) >= batchSize
  /\ BagCardinality(disk) = Cardinality(produced)

\* C4: the result queue is closed only after every producer thread has
\* terminated, by the orchestrator in waitForCompletion; while a producer is
\* still running (so may still push) the result queue is open.
C4_ImageQueueClosedAfterProducers ==
  done_[ImageQ] =>
    /\ ctl \in {"join_consumer", "returned"}
    /\ \A p \in Producers : producers_[p] \in {"none", "exited"}

C4_Witness ==
  /\ done_[ImageQ]
  /\ numThreads_ = 2
  /\ Cardinality(produced) >= 2

\* C5: the task queue is closed only after run has pushed every task (each
\* path once per iteration); no task is pushed after the close.
C5_PathQueueClosedAfterAllPushed ==
  done_[PathQ] =>
    /\ pushed = image_paths * iterations
    /\ ctl # "enqueue"

C5_Witness ==
  /\ done_[PathQ]
  /\ image_paths >= 2
  /\ iterations >= 2

\* C6: once run has started its threads it eventually returns (all producer
\* threads and the consumer thread joined), under fair scheduling.
C6_RunEventuallyReturns ==
  (ctl = "enqueue") ~> (ctl = "returned")

\* ------------------------------------------------- claims about SafeQueue
\* A pop call of client c returns in this step
PopReturns(c) == call[c] \in {"pop", "pop_wait"} /\ call'[c] = "idle"

\* A push call of client c returns in this step
PushReturns(c) == call[c] = "push" /\ call'[c] = "idle"

\* The client calls whose push has been issued and has not returned
PendingPush == {c \in Clients : call[c] = "push"}

\* C7: pop returns false only when the queue is empty and closed; whenever
\* the queue holds an item, pop returns true with the front item, also after
\* the queue has been closed.
C7_PopFalseOnlyEmptyAndClosed ==
  [][\A c \in Clients : PopReturns(c) =>
       /\ ~ret'[c].ok => (queue_[ImageQ] = << >> /\ done_[ImageQ])
       /\ queue_[ImageQ] # << >> =>
            (ret'[c].ok /\ ret'[c].item = Head(queue_[ImageQ]))]_vars

C7_Witness ==
  /\ done_[ImageQ]
  /\ queue_[ImageQ] # << >>
  /\ okSince >= 1
  /\ \E c \in Clients : call[c] = "idle" /\ ret[c].ok

\* C8: if K items are buffered when setDone is called and nothing is
\* enqueued afterwards, the next K pops to return each return true, and
\* every pop after them returns false.
C8_DrainOnClose ==
  [][\A c \in Clients :
       (PopReturns(c) /\ done_[ImageQ] /\ ~pushSince) =>
          (ret'[c].ok <=> okSince < closeLen)]_vars

C8_Witness ==
  /\ done_[ImageQ]
  /\ ~pushSince
  /\ closeLen >= 2
  /\ okSince = closeLen
  /\ \E c \in Clients : call[c] = "idle" /\ ~ret[c].ok

\* C9: once setDone has been called on a queue, a push (issued afterwards or
\* pending at the time) returns without adding its item: the buffered
\* contents after the push equal the contents before it.
C9_PushAfterCloseDropsItem ==
  [][\A c \in Clients :
       (PushReturns(c) /\ done_[ImageQ]) =>
          queue_'[ImageQ] = queue_[ImageQ]]_vars

\* C10: while several pushes are pending on a full open queue, none of them
\* completes until a pop has removed an item, so the size stays at most the
\* capacity.
C10_PendingPushesWaitForPop ==
  [][(~done_[ImageQ] /\ Len(queue_[ImageQ]) >= queueCapacity
        /\ Cardinality(PendingPush) >= 2) =>
       (PendingPush \subseteq {c \in Clients : call'[c] = "push"}
          /\ Len(queue_'[ImageQ]) <= queueCapacity)]_vars

\* C11: when setDone is called while callers are blocked in pop on an empty
\* queue, each of those callers leaves the wait, and the pop call it was
\* blocked in returns false.
C11_BlockedPopsReturnFalse ==
  /\ \A c \in Clients :
       (call[c] = "pop_wait" /\ done_[ImageQ]) ~> (call[c] # "pop_wait")
  /\ [][\A c \in Clients :
          (PopReturns(c) /\ call[c] = "pop_wait" /\ done_[ImageQ]
             /\ closeLen = 0) => ~ret'[c].ok]_vars

\* C12: setDone on a queue that is already closed leaves the buffered items
\* and the closed flag as they were after the first setDone.
C12_SetDoneIdempotent ==
  [][(done_[ImageQ] /\ \E c \in Clients : callSetDone(c)) =>
       (queue_'[ImageQ] = queue_[ImageQ] /\ done_'[ImageQ])]_vars

C12_Witness ==
  /\ reclosed
  /\ done_[ImageQ]
  /\ closeLen >= 2
  /\ Len(queue_[ImageQ]) = closeLen
  /\ okSince = 0

\* C13: a run over P paths and I iterations that returns has enqueued
\* exactly P*I tasks, each path exactly I times, and when no task and no
\* write failed exactly P*I images are on disk, for every worker count and
\* queue capacity the controller accepts.
C13_RunPersistsPathsTimesIterations ==
  (ctl = "returned" /\ image_paths > 0) =>
    /\ pushed = image_paths * iterations
    /\ Cardinality(PushedTasks) = image_paths * iterations
    /\ \A k \in 1..image_paths :
         Cardinality({task \in PushedTasks : task.path = k}) = iterations
    /\ \A task \in PushedTasks : task.path \in 1..image_paths
    /\ (faults = 0 /\ ~writeFailed) =>
         BagCardinality(disk) = image_paths * iterations

C13_Witness ==
  /\ ctl = "returned"
  /\ image_paths >= 2
  /\ iterations >= 2
  /\ image_paths * iterations >= batchSize
  /\ faults = 0
  /\ BagCardinality(disk) = image_paths * iterations

\* C14: the seed apply derives for a task depends only on the base seed and
\* on the task (path, iteration): when the program is executed again with
\* the same configuration, the image built for a task gets the seed the
\* image of that task got in the first execution, whatever the base seed and
\* however the threads were scheduled.
C14_SeedIsFunctionOfTask ==
  \A im \in produced : \A r \in firstRun.ids :
    (r.path = im.path /\ r.i = im.i) =>
      \A base \in 0..MaxSeed :
        derivedSeed(base, im.id) = derivedSeed(base, r.id)

\* The apply call made on image x has returned
Returned(x) == inv[x].state = "returned"

\* C15: two images constructed with the same name and the same pixels, each
\* handed to apply(img) of one pipeline, end with identical history logs.
C15_SameImagesSameHistory ==
  (/\ Returned("imgA") /\ Returned("imgB")
   /\ inv["imgA"].overload = "derived" /\ inv["imgB"].overload = "derived"
   /\ images["imgA"].name = images["imgB"].name
   /\ images["imgA"].data = images["imgB"].data)
    => images["imgA"].history = images["imgB"].history

\* C16: apply(imgA, s) and apply(imgB, s) of one pipeline take the same
\* run/skip decision for every entry both have reached and sample the same
\* parameters, whatever the two images are.
C16_SameSeedSameDecisions ==
  (inv["imgA"].overload = "explicit" /\ inv["imgB"].overload = "explicit")
    => \A i \in DOMAIN inv["imgA"].decided \cap DOMAIN inv["imgB"].decided :
         inv["imgA"].decided[i] = inv["imgB"].decided[i]

\* C17: the values an apply call has drawn are the first values of the
\* stream of a generator freshly seeded with the call's seed, whatever other
\* calls run at the same time and whatever the thread ran before.
C17_DrawsComeFromOwnSeed ==
  \A x \in Images :
    inv[x].state # "none" =>
      inv[x].drawn = Stream(seeded(inv[x].seed), Len(inv[x].drawn))

C17_Witness ==
  /\ frame[1].img = "imgA"
  /\ frame[2].img = "imgB"
  /\ frame[1].overload = frame[2].overload
  /\ frame[1].k = 2
  /\ frame[2].k = 2
  /\ inv["imgA"].seed # inv["imgB"].seed
  /\ Len(inv["imgA"].drawn) >= 2

\* The decisions of the call on image x whose coin flip succeeded
Executed(x) == SelectSeq(inv[x].decided, LAMBDA d : d.ran)

\* C18: one apply call visits the entries in list order, each later than
\* the one before, and the history entries it appends are those of the
\* entries it ran, in list order.
C18_ListOrder ==
  \A x \in Images :
    LET dec == inv[x].decided
        ex  == Executed(x)
        h   == images[x].history
    IN /\ \A i, j \in DOMAIN dec : i < j => dec[i].k < dec[j].k
       /\ Len(h) = IF inv[x].state = "threw" THEN Len(ex) - 1 ELSE Len(ex)
       /\ \A i \in DOMAIN h : h[i].op = operations_[ex[i].k].op

C18_Witness ==
  \E x \in Images :
    /\ Returned(x)
    /\ Len(images[x].history) = 2
    /\ images[x].history[1].op # images[x].history[2].op

\* C19: an entry runs exactly when the value drawn for it is below its
\* probability; an entry of probability 0 never runs and an entry of
\* probability 1 always runs.
C19_RunsIffDrawBelowProbability ==
  \A x \in Images : \A i \in DOMAIN inv[x].decided :
    LET d == inv[x].decided[i]
        prob == operations_[d.k].prob
    IN /\ d.ran <=> d.u < prob
       /\ prob = 0 => ~d.ran
       /\ prob = UIntMod => d.ran

C19_Witness ==
  \E x \in Images :
    /\ Returned(x)
    /\ Len(inv[x].decided) = 2
    /\ operations_[1].prob = operations_[2].prob
    /\ operations_[1].prob \notin {0, UIntMod}
    /\ inv[x].decided[1].ran
    /\ ~inv[x].decided[2].ran

\* The task an image was built for
TaskOf(im) == [path |-> im.path, i |-> im.i]

\* C20: a task whose image construction or pipeline threw is dropped: no
\* image of it is pushed, it is not popped again, and the producer goes on;
\* a producer only ends when the task queue is closed and empty, so at the
\* return of run every task was either dropped or built and pushed.
C20_FailedTaskDroppedProducerGoesOn ==
  /\ \A im \in produced : TaskOf(im) \notin dropped
  /\ \A p \in Producers :
       /\ producers_[p] = "push" => TaskOf(img[p]) \notin dropped
       /\ producers_[p] = "exited" =>
            (done_[PathQ] /\ queue_[PathQ] = << >>)
  /\ \A task \in dropped : CopiesIn(task, taken) = 1
  /\ (ctl = "returned" /\ image_paths > 0) =>
       \A task \in PushedTasks :
         task \in dropped \/ \E im \in produced : TaskOf(im) = task

C20_Witness ==
  /\ ctl = "returned"
  /\ numThreads_ = 1
  /\ \E task \in dropped : \E im \in produced :
       \/ im.path > task.path
       \/ im.path = task.path /\ im.i > task.i

\* ------------------------------------------------ claims about failing tasks
\* C21: a task whose source file cannot be read is a failed task: no image of
\* it is pushed onto the result queue (none is held by a producer about to
\* push, none is in the queue, none was ever pushed) and none is on disk.
C21_UnreadableSourceNeverPushed ==
  /\ \A im \in produced : ~im.empty
  /\ \A p \in Producers : producers_[p] = "push" => ~img[p].empty
  /\ \A k \in 1..Len(queue_[ImageQ]) : ~queue_[ImageQ][k].empty
  /\ \A image \in BagToSet(disk) : ~image.empty

\* C22: a failing write is not retried and does not disturb the other
\* images: no image is ever written a second time, and the consumer thread
\* is not ended by the failure (the process is not terminated).
C22_FailedWriteNoRewriteRunCompletes ==
  /\ \A image \in BagToSet(disk) : CopiesIn(image, disk) = 1
  /\ consumer_ # "crashed"
  /\ ~aborted

\* C23: a controller built with 0 workers does not exist, and a run called
\* with iterations < 1 ends with invalid_argument for every path list, with
\* no producer or consumer thread started and no task enqueued.
C23_BadArgumentsThrowBeforeAnyWork ==
  /\ numThreads_ = 0 => ctl = "ctor_threw"
  /\ (ctl \in {"ctor_threw", "threw"}
        \/ (ctl # "idle" /\ iterations < 1)) =>
       /\ ctl \in {"ctor_threw", "threw"}
       /\ \A p \in Producers : producers_[p] = "none"
       /\ consumer_ = "none"
       /\ pushed = 0
       /\ queue_[PathQ] = << >>

\* C24: an exception of an operation leaves apply.  In the step in which the
\* operation throws, the call ends (its thread is no longer inside apply on
\* that image), the entry that threw was one whose coin flip succeeded, and
\* the history the earlier operations wrote is still on the image; after it
\* no entry is visited for that image and the image is not touched again.
C24_ThrowLeavesApply ==
  [][\A x \in Images :
       /\ (inv[x].state # "threw" /\ inv'[x].state = "threw") =>
            /\ \A t \in Producers : frame'[t].img # x
            /\ inv'[x].decided[Len(inv'[x].decided)].ran
            /\ Len(inv'[x].decided) = Len(inv[x].decided) + 1
            /\ images'[x] = images[x]
            /\ Len(images[x].history) = Len(Executed(x))
       /\ inv[x].state = "threw" =>
            (inv'[x] = inv[x] /\ images'[x] = images[x])]_vars

C24_Witness ==
  \E x \in Images :
    /\ inv[x].state = "threw"
    /\ Len(operations_) = 2
    /\ Len(inv[x].decided) = 1
    /\ operations_[2].prob = UIntMod

\* ------------------------------------------ claims about the OperationFactory
\* The parameter counts each registered operation accepts
AcceptedCounts(key) ==
  CASE key = key_rotate -> {3}
    [] key \in {key_reflect, key_histogram_equalization, key_white_balance,
                key_to_grayscale, key_sharpen_image} -> {0}
    [] key \in {key_resize, key_crop} -> {2, 4}
    [] key = key_affine_transform -> {0, 6}
    [] key = key_color_jitter -> {4}
    [] key \in {key_adjust_brightness, key_adjust_contrast,
                key_adjust_saturation, key_adjust_hue} -> {2}
    [] key \in {key_inject_noise, key_random_erase} -> {0, 4}
    [] key = key_blur_image -> {0, 2}

\* C25: create(name, params, prob) of a registered operation with a number
\* of parameters it does not accept returns no entry: it fails with an error
\* that names the operation and states the accepted counts and the count
\* received.
C25_WrongCountErrorStatesBothCounts ==
  \A key \in Keys :
    (/\ made.variant = "params"
     /\ lowered(made.name) = key
     /\ Len(made.params) \notin AcceptedCounts(key))
      => /\ made.result.kind = "error"
         /\ made.result.err.what = "count"
         /\ made.result.err.op = key
         /\ made.result.err.expected = AcceptedCounts(key)
         /\ made.result.err.received = Len(made.params)

\* The positions of the (min, max) pairs in the parameter list of an
\* operation
MinMaxPairs(key, n) ==
  CASE key = key_rotate /\ n = 3 -> {<< 1, 2 >>}
    [] key = key_resize /\ n = 2 -> {<< 1, 2 >>}
    [] key = key_resize /\ n = 4 -> {<< 1, 2 >>, << 3, 4 >>}
    [] key \in {key_adjust_brightness, key_adjust_contrast,
                key_adjust_saturation, key_adjust_hue} /\ n = 2
         -> {<< 1, 2 >>}
    [] key = key_inject_noise /\ n = 4 -> {<< 1, 2 >>, << 3, 4 >>}
    [] key = key_blur_image /\ n = 2 -> {<< 1, 2 >>}
    [] key = key_random_erase /\ n = 4 -> {<< 1, 2 >>, << 3, 4 >>}
    [] OTHER -> {}

\* C26: create with min > max in a (min, max) pair of the parameters returns
\* no entry: it fails with an invalid-argument error about the value.
C26_MinAboveMaxRejected ==
  (/\ made.variant = "params"
   /\ \E pr \in MinMaxPairs(lowered(made.name), Len(made.params)) :
        made.params[pr[1]] > made.params[pr[2]])
    => /\ made.result.kind = "error"
       /\ made.result.err.type = "invalid_argument"
       /\ made.result.err.what = "value"

\* C27: an operation returned by either create function never fails when it
\* is applied because of the fields it was built with.
C27_BuiltOperationNeverFailsOnItsFields ==
  applied \in {"none", "ok"}

\* The same letter, whatever its case
Letter(c) ==
  IF c \in 65..90 THEN c - 65 ELSE IF c \in 97..122 THEN c - 97 ELSE -1

\* Two names that differ at most in the case of their letters
SameIgnoringCase(a, b) ==
  /\ Len(a) = Len(b)
  /\ \A i \in DOMAIN a :
       a[i] = b[i] \/ (Letter(a[i]) # -1 /\ Letter(a[i]) = Letter(b[i]))

\* C28: a name written in any letter case of a registered name gets a result
\* the same call with the lower-case name can get (the same operation with
\* the same fields, or the same error); a name that is no registered name in
\* any letter case gets the unrecognized-operation error naming it, and no
\* entry.
C28_NameMatchIgnoresCase ==
  made.variant # "none" =>
    /\ \A key \in Keys :
         SameIgnoringCase(made.name, key) =>
           made.result \in (IF made.variant = "params"
                              THEN create(key, made.params, made.prob)
                              ELSE createRandom(key, made.prob))
    /\ (~ \E key \in Keys : SameIgnoringCase(made.name, key)) =>
         /\ made.result.kind = "error"
         /\ made.result.err.what = "unrecognized"
         /\ made.result.err.op = made.name

C28_Witness ==
  /\ made.variant = "params"
  /\ made.name \notin Keys
  /\ \A i \in DOMAIN made.name : made.name[i] \notin 97..122
  /\ made.result.kind = "entry"
  /\ made.result.cls = "AdjustHue"

\* C29: every entry a create function returns and every entry a Pipeline
\* holds has a probability between 0 and 1.
C29_EntryProbabilityWithinZeroOne ==
  /\ made.result.kind = "entry" => made.result.prob \in 0..UIntMod
  /\ \A i \in DOMAIN operations_ : operations_[i].prob \in 0..UIntMod

\* ------------------------------------------------------ claims about Image
\* The Image objects built from a path that exist or have existed
Built ==
  produced \cup {img[p] : p \in {q \in Producers : producers_[q] = "push"}}

\* C30: no two Image objects of one process have the same id, whichever
\* threads constructed them; an Image gets an id above every id handed out
\* before it, and the counter never goes back.
C30_IdsUniqueAndIncreasing ==
  [][/\ global_id_' >= global_id_
     /\ \A a \in Built' : a.id < global_id_'
     /\ \A a, b \in Built' : a.id = b.id => a = b
     /\ \A a \in Built' \ Built : \A b \in Built : a.id > b.id]_vars

C30_Witness ==
  /\ numThreads_ = 2
  /\ producers_[1] = "push"
  /\ producers_[2] = "push"
  /\ img[1].id > img[2].id
  /\ produced # {}

\* ------------------------------------------------- claims about ownership
\* How many places hold image im: the local `img` of a producer, a slot of
\* the result queue, a slot of the consumer's batch
Holders(im) ==
  Cardinality({p \in Producers : img[p] = im})
    + Cardinality({k \in DOMAIN queue_[ImageQ] : queue_[ImageQ][k] = im})
    + Cardinality({k \in DOMAIN image_batch : image_batch[k] = im})

\* Who holds image im
Holder(im) ==
  IF \E p \in Producers : img[p] = im THEN "producer"
  ELSE IF \E k \in DOMAIN queue_[ImageQ] : queue_[ImageQ][k] = im
    THEN "queue"
  ELSE IF \E k \in DOMAIN image_batch : image_batch[k] = im THEN "consumer"
  ELSE "none"

\* C31: an image is never in two places at once; it starts in the hands of
\* the producer that built it, and passes from the producer to the result
\* queue and from the queue to the consumer, once each and never back, until
\* the consumer lets go of it.
C31_OneHolderOneHopAtATime ==
  [][\A im \in Built' :
       /\ Holders(im)' <= 1
       /\ IF im \in Built
            THEN \/ Holder(im)' = Holder(im)
                 \/ << Holder(im), Holder(im)' >> \in
                      { << "producer", "queue" >>, << "queue", "consumer" >>,
                        << "consumer", "none" >> }
            ELSE Holder(im)' = "producer"]_vars

C31_Witness ==
  /\ numThreads_ = 2
  /\ \E a, b, c \in Built :
       /\ Holder(a) = "producer"
       /\ Holder(b) = "queue"
       /\ Holder(c) = "consumer"

\* ------------------------------------------------ claims about file names
\* C32: two different images written in one run are written to different
\* files, also when they come from the same source file or from sources
\* with the same base name.
C32_OutputNamesDistinct ==
  \A a, b \in BagToSet(disk) : a # b => outputPath(a) # outputPath(b)

C32_Witness ==
  /\ ctl = "returned"
  /\ \E a, b, c \in BagToSet(disk) :
       /\ a.path = 1 /\ b.path = 1 /\ a.i # b.i
       /\ c.path = 2
       /\ stem(pathName(c.path)) = stem(pathName(a.path))
  /\ \E a \in BagToSet(disk) : a.id >= 10

\* ------------------------------------------------- claims about failures
\* C33: a failed task or a failed write does not change how run ends: after
\* a task was dropped or a write failed the process is still not terminated,
\* and a run that has returned has joined a consumer that left its thread
\* function by its end.
C33_FailuresLeaveRunOutcome ==
  (writeFailed \/ dropped # {}) =>
     /\ ~aborted
     /\ ctl = "returned" => consumer_ = "exited"

\* ------------------------------------------------- claims about the phases
\* C34: every producer thread and the consumer thread have been started
\* when run pushes its first task, so tasks are popped and processed while
\* run is still pushing.
C34_ThreadsStartedBeforeFirstPush ==
  (ctl = "enqueue" \/ pushed > 0) =>
     /\ \A p \in Producers : p <= numThreads_ => producers_[p] # "none"
     /\ consumer_ # "none"

C34_Witness ==
  /\ ctl = "enqueue"
  /\ pushed < totalTasks_
  /\ produced # {}
  /\ image_batch # << >>
  /\ \E p \in Producers : producers_[p] = "build"

\* The phase of the run, read off the position of the thread that called
\* run: 1 idle (run not called), 2 enqueuing (in the loops that push the
\* tasks), 3 running (task queue closed, waiting for the producers),
\* 4 draining (result queue closed, waiting for the consumer), 5 completed
\* (run has returned); 0 when the constructor or run has thrown
PhaseOf ==
  CASE ctl = "idle" -> 1
    [] ctl = "enqueue" -> 2
    [] ctl \in {"join_producers", "close_images"} -> 3
    [] ctl = "join_consumer" -> 4
    [] ctl = "returned" -> 5
    [] OTHER -> 0

\* C35: a run with a non-empty path list and iterations >= 1 goes from each
\* phase to the next one only: no phase is skipped and none is entered
\* again; in the phases the queues are as the phase says.
C35_PhasesInOrder ==
  [][(image_paths' > 0 /\ iterations' >= 1) =>
       /\ PhaseOf' \in {PhaseOf, PhaseOf + 1}
       /\ PhaseOf' = 2 => ~done_'[PathQ] /\ ~done_'[ImageQ]
       /\ PhaseOf' = 3 => done_'[PathQ] /\ ~done_'[ImageQ]
       /\ PhaseOf' \in {4, 5} => done_'[PathQ] /\ done_'[ImageQ]]_vars

C35_Witness ==
  /\ PhaseOf = 5
  /\ image_paths > 1 /\ iterations > 1
  /\ BagCardinality(disk) = totalTasks_

PendingPop == {c \in Clients : call[c] \in {"pop", "pop_wait"}}

\* The pending pop calls that are not blocked in cv_.wait: issued, or woken
\* and about to test the predicate again
RunnablePop == PendingPop \ cv_[ImageQ]

\* C37: no wake-up is lost.  A push that finds callers blocked in pop wakes
\* one of them; while a caller is blocked there are at least as many pop
\* calls awake as items buffered; and a state with a buffered item and a
\* pending pop is always followed by one in which the items have been taken
\* or no pop is pending.
C37_NoLostWakeup ==
  /\ [][\A c \in Clients :
          (PushReturns(c) /\ cv_[ImageQ] # {}) =>
             (cv_'[ImageQ] \subseteq cv_[ImageQ]
                /\ cv_'[ImageQ] # cv_[ImageQ])]_vars
  /\ [](cv_[ImageQ] # {} =>
          Len(queue_[ImageQ]) <= Cardinality(RunnablePop))
  /\ (queue_[ImageQ] # << >> /\ PendingPop # {})
       ~> (queue_[ImageQ] = << >> \/ PendingPop = {})

C37_Witness ==
  /\ ~done_[ImageQ]
  /\ queue_[ImageQ] # << >>
  /\ cv_[ImageQ] # {}
  /\ \E c \in RunnablePop : call[c] = "pop_wait"

\* ------------------------------------------ claims about the written output
\* C38: when save_specs is true no image is written by the plain save: every
\* image on disk was written together with its history, the images of the
\* last, partly filled batch included.
C38_SaveSpecsWritesEveryHistory ==
  save_specs => plainSaved = {}

\* ------------------------------------------ claims about a second call of run
\* C39: when the second call of run on a controller has returned, every task
\* it pushed has been popped by a producer exactly once and the task queue is
\* empty, and if nothing failed the image of every task is on disk.
C39_SecondRunProcessesEveryTask ==
  (firstRun # NoRun /\ ctl = "returned" /\ image_paths > 0) =>
     /\ queue_[PathQ] = << >>
     /\ \A task \in PushedTasks : CopiesIn(task, taken) = 1
     /\ (faults = 0 /\ ~writeFailed /\ dropped = {}) =>
          \A task \in PushedTasks :
            \E image \in produced :
              TaskOf(image) = task /\ CopiesIn(image, disk) = 1

\* ------------------------------------------------- claims about the order
\* The thread whose push enqueued item
PushedBy(item) ==
  LET k == CHOOSE k \in DOMAIN pushLog : pushLog[k].item = item
  IN pushLog[k].by

\* C40: the queue is first in, first out.  The items handed out by pop,
\* followed by the items still buffered, are the items enqueued by push in
\* the order the pushes took effect; so pop hands out only pushed items, each
\* at most once, and the items of one thread in the order that thread pushed
\* them.
C40_FifoOrder ==
  /\ [k \in DOMAIN pushLog |-> pushLog[k].item] = popLog \o queue_[ImageQ]
  /\ \A i, j \in DOMAIN popLog : i < j => popLog[i] # popLog[j]
  /\ \A i \in DOMAIN popLog : \E k \in DOMAIN pushLog : pushLog[k].item = popLog[i]
  /\ \A i, j \in DOMAIN popLog :
       (i < j /\ PushedBy(popLog[i]) = PushedBy(popLog[j])) =>
          popLog[i] < popLog[j]
  /\ \A c \in Clients :
       ret[c] # NoRet =>
         \E i \in DOMAIN popLog : popLog[i] = ret[c].item

C40_Witness ==
  /\ Len(popLog) = 3
  /\ PushedBy(popLog[1]) = PushedBy(popLog[3])
  /\ PushedBy(popLog[1]) # PushedBy(popLog[2])
  /\ popLog[2] < popLog[1]

====
